---- MODULE Spec2Model ----
(***************************************************************************)
(* CulturalBot provider clients (laveehere/guidobylvx).                    *)
(*                                                                         *)
(* The repository holds two builds of the same script:                     *)
(*   "full"   - src/free-apis-integration.js                               *)
(*   "legacy" - src/unnamed/part_000                                       *)
(* Both declare the same globals, so a page loads exactly one of them:     *)
(* variant is fixed at Init.  WeatherAPI, NewsAPI and AIAPI.processQuery   *)
(* are the same code in both builds; PlacesAPI.searchPlaces differs.       *)
(*                                                                         *)
(* An async function runs atomically up to its next await, so each action  *)
(* below is one such run: StartX is the call up to its first await (or to  *)
(* its return), XResponse is the continuation after the awaited fetch and  *)
(* response.json() have settled.                                           *)
(***************************************************************************)
EXTENDS Integers, Sequences, FiniteSets, TLC

VARIABLES
    variant,        \* which build is loaded
    enabled,        \* API_CONFIG[p].enabled
    now,            \* Date.now(), in ms since the page loaded
    cache,          \* the static cache Map of WeatherAPI, PlacesAPI, NewsAPI
    apiCallCount,   \* the global tally
    calls,          \* the provider calls in flight or just finished
    started,        \* number of calls started so far
    currentCity,    \* the city chosen in the city selector
    chat            \* what the last category handler appended to #messages

vars == <<variant, enabled, now, cache, apiCallCount, calls, started, currentCity, chat>>

-----------------------------------------------------------------------------
(* Bounds of the model *)

MaxCalls == 2           \* provider calls per behaviour
MaxHits == 1            \* usable geocoder hits accumulated by one searchPlaces call

Slots == {1, 2}         \* calls that may overlap

-----------------------------------------------------------------------------
(* Program constants *)

WeatherCacheTimeout == 10 * 60 * 1000
PlacesCacheTimeout == 30 * 60 * 1000
NewsCacheTimeout == 60 * 60 * 1000

\* The instants at which the modelled clock is read: each TTL is met from
\* below, exactly and from above by some pair of them.
Minute == 60 * 1000
Instants == {0, 10 * Minute, 30 * Minute, 70 * Minute}

\* The deployment configurations considered: every provider switched on, or
\* every provider switched off (each client reads its own flag only).
Configs == {[p \in {"weather", "places", "ai", "news"} |-> b] : b \in BOOLEAN}

Providers == {"weather", "places", "ai", "news"}
Cached == {"weather", "places", "news"}
\* every class that keeps a static cache Map
Caches == Cached \cup {"clothing", "local_rec"}

cacheTimeout(p) ==
    CASE p = "weather" -> WeatherCacheTimeout
      [] p = "places" -> PlacesCacheTimeout
      [] p = "news" -> NewsCacheTimeout

NoEntry == [present |-> FALSE]
EmptyMap == [k \in {} |-> NoEntry]
NoResult == [kind |-> "none"]
NoChat == [handler |-> "none"]

\* cities and categories the provider calls of this model are made with
CallCities == {"tokyo"}
CallCategories == {"culture"}
CallMessages == {"What's the weather like?"}

\* `weather_${city}`, `places_${city}_${category}`, `news_${city}`
cacheKey(p, city, category) ==
    IF p = "places" THEN <<city, category>> ELSE <<city>>

\* cached && Date.now() - cached.timestamp < this.cacheTimeout
IsFreshInverted(entry, t, ttl) == entry.present /\ t - entry.timestamp > ttl
IsFresh(entry, t, ttl) == entry.present /\ t - entry.timestamp < ttl

\* this.cache.get(cacheKey): a Map holds the keys stored so far
cacheGet(c, p, key) == IF key \in DOMAIN c[p] THEN c[p][key] ELSE NoEntry

\* a cache whose first entry for a key stays
cacheSetIfAbsent(c, p, key, data, t) ==
    IF key \in DOMAIN c[p] THEN c
    ELSE [c EXCEPT ![p] = [k \in DOMAIN @ \cup {key} |->
                             IF k = key
                             THEN [present |-> TRUE, data |-> data, timestamp |-> t]
                             ELSE @[k]]]

\* this.cache.set(cacheKey, { data, timestamp: Date.now() })
cacheSet(c, p, key, data, t) ==
    [c EXCEPT ![p] = [k \in DOMAIN @ \cup {key} |->
                        IF k = key THEN [present |-> TRUE, data |-> data, timestamp |-> t]
                        ELSE @[k]]]

-----------------------------------------------------------------------------
(* Completions of a block of code: it returns a value, throws, or falls    *)
(* through to the statement after it.                                      *)

\* via names the return statement taken: the cache hit's, the live path's,
\* or the fallback's
Return(v, c, n) ==
    [kind |-> "return", via |-> "live", value |-> v, cache |-> c, count |-> n]
ReturnCached(v, c, n) == [Return(v, c, n) EXCEPT !.via = "cache"]
ReturnFallback(v, c, n) == [Return(v, c, n) EXCEPT !.via = "fallback"]
Throw(c, n) == [kind |-> "throw", via |-> "none", value |-> NoResult, cache |-> c, count |-> n]
FallThrough(c, n) == [kind |-> "next", via |-> "none", value |-> NoResult, cache |-> c, count |-> n]

\* try { ... } catch (error) { console.error(...) }
Rethrow(r) == r
Catch(r) == IF r.kind = "throw" THEN FallThrough(r.cache, r.count) ELSE r

-----------------------------------------------------------------------------
(* WeatherAPI *)

\* what fetch + response.json() can settle to
WeatherResponses ==
    { [net |-> "reject"], [net |-> "status"], [net |-> "badjson"] } \cup
    { [net |-> "ok", has |-> h, temp |-> 21] :
        h \in { {"main", "weather0", "wind"}, {"weather0", "wind"},
                {"main", "wind"}, {"main", "weather0"} } }

temps(city) ==
    CASE city = "tokyo" -> 22 [] city = "paris" -> 16 [] city = "mumbai" -> 28
      [] city = "delhi" -> 32 [] city = "newyork" -> 18 [] OTHER -> 20

\* windSpeed is in tenths of m/s; timestamp is the instant whose local string
\* the object carries; oid is the identity of the object (the call that made it)
getSimulatedWeather(city, t, id) ==
    [kind |-> "weather", temperature |-> temps(city), condition |-> "partly cloudy",
     humidity |-> 65, windSpeed |-> 52, pressure |-> 1013, timestamp |-> t,
     source |-> "Demo Data (Add API key for live)", isRealTime |-> FALSE, oid |-> id]

\* the body of the try block once the fetch has settled
WeatherTryBody(call, resp, c, n, t) ==
    IF resp.net = "reject" \/ resp.net = "badjson" THEN Throw(c, n)
    ELSE IF resp.net = "status" THEN FallThrough(c, n)
    ELSE IF ~({"main", "weather0", "wind"} \subseteq resp.has) THEN Throw(c, n)
    ELSE LET weatherData ==
                 [kind |-> "weather", temperature |-> resp.temp,
                  condition |-> "clear sky", humidity |-> 60, windSpeed |-> 31,
                  pressure |-> 1010, timestamp |-> t,
                  source |-> "OpenWeatherMap API (LIVE)", isRealTime |-> TRUE,
                  oid |-> call.id]
         IN  Return(weatherData,
                    cacheSet(c, "weather", cacheKey("weather", call.city, call.category),
                             weatherData, t),
                    [n EXCEPT !["weather"] = @ + 1])

\* a fallback that serves the stored value when there is one
WeatherAfterTryStale(call, r, t) ==
    LET cached == cacheGet(r.cache, "weather", cacheKey("weather", call.city, call.category))
    IN  IF r.kind = "next"
        THEN ReturnFallback(IF cached.present THEN cached.data
                            ELSE getSimulatedWeather(call.city, t, call.id),
                           r.cache, r.count)
        ELSE r
\* return this.getSimulatedWeather(city);
WeatherAfterTry(call, r, t) ==
    IF r.kind = "next"
    THEN ReturnFallback(getSimulatedWeather(call.city, t, call.id), r.cache, r.count)
    ELSE r

-----------------------------------------------------------------------------
(* PlacesAPI: query planner and fallback table *)

Undefined == [defined |-> FALSE]
Defined(v) == [defined |-> TRUE, value |-> v]

Take(seq, k) == SubSeq(seq, 1, IF Len(seq) < k THEN Len(seq) ELSE k)

\* const cityData = { ... } of generateSearchQueries (letters outside ASCII are
\* written without their diacritics here and in fallbacks)
cityData(city, category) ==
    CASE city = "delhi" /\ category = "culture" ->
           Defined(<<"Red Fort Delhi", "Qutub Minar Delhi", "Humayun Tomb Delhi", "Lotus Temple Delhi", "National Museum Delhi">>)
      [] city = "delhi" /\ category = "tourist" ->
           Defined(<<"India Gate Delhi", "Red Fort Delhi", "Lotus Temple Delhi", "Akshardham Temple Delhi">>)
      [] city = "delhi" /\ category = "food" ->
           Defined(<<"restaurants Delhi", "popular restaurants Delhi", "local food Delhi", "best places to eat Delhi">>)
      [] city = "delhi" /\ category = "shopping" ->
           Defined(<<"markets Delhi", "famous shopping markets Delhi", "shopping districts Delhi", "local bazaars Delhi">>)
      [] city = "tokyo" /\ category = "culture" ->
           Defined(<<"Senso-ji Temple Tokyo", "Meiji Shrine Tokyo", "Tokyo National Museum", "Imperial Palace Tokyo">>)
      [] city = "tokyo" /\ category = "tourist" ->
           Defined(<<"Tokyo Tower", "Tokyo Skytree", "Shibuya Crossing Tokyo", "Asakusa Tokyo">>)
      [] city = "tokyo" /\ category = "food" ->
           Defined(<<"restaurants Tokyo", "Tsukiji Market Tokyo", "best sushi Tokyo", "local food Tokyo">>)
      [] city = "tokyo" /\ category = "shopping" ->
           Defined(<<"Shibuya shopping district Tokyo", "Harajuku shopping Tokyo", "Ginza Tokyo markets", "Akihabara Tokyo">>)
      [] city = "mumbai" /\ category = "culture" ->
           Defined(<<"Gateway of India Mumbai", "Chhatrapati Shivaji Terminus Mumbai", "Elephanta Caves Mumbai">>)
      [] city = "mumbai" /\ category = "tourist" ->
           Defined(<<"Marine Drive Mumbai", "Gateway of India Mumbai", "Juhu Beach Mumbai">>)
      [] city = "mumbai" /\ category = "food" ->
           Defined(<<"restaurants Mumbai", "Mohammed Ali Road Mumbai", "best street food Mumbai", "local food Mumbai">>)
      [] city = "mumbai" /\ category = "shopping" ->
           Defined(<<"Linking Road Mumbai", "Colaba Causeway Mumbai", "Crawford Market Mumbai", "Fashion Street Mumbai">>)
      [] city = "paris" /\ category = "culture" ->
           Defined(<<"Louvre Museum Paris", "Notre Dame Paris", "Musee d'Orsay Paris", "Sainte-Chapelle Paris">>)
      [] city = "paris" /\ category = "tourist" ->
           Defined(<<"Eiffel Tower Paris", "Arc de Triomphe Paris", "Champs-Elysees Paris", "Montmartre Paris">>)
      [] city = "paris" /\ category = "food" ->
           Defined(<<"restaurants Paris", "Le Marais Paris food", "Latin Quarter Paris restaurants", "best bistros Paris">>)
      [] city = "paris" /\ category = "shopping" ->
           Defined(<<"Champs-Elysees Paris shops", "Le Marais Paris markets", "Galeries Lafayette Paris", "Rue Saint-Honore Paris">>)
      [] city = "newyork" /\ category = "culture" ->
           Defined(<<"Metropolitan Museum New York", "MoMA New York", "Guggenheim Museum New York">>)
      [] city = "newyork" /\ category = "tourist" ->
           Defined(<<"Statue of Liberty New York", "Central Park New York", "Times Square New York", "Brooklyn Bridge New York">>)
      [] city = "newyork" /\ category = "food" ->
           Defined(<<"restaurants New York", "Little Italy New York", "Chinatown New York", "best pizza New York">>)
      [] city = "newyork" /\ category = "shopping" ->
           Defined(<<"Fifth Avenue New York", "SoHo New York", "Chelsea Market New York", "Union Square Market New York">>)
      [] city = "london" /\ category = "culture" ->
           Defined(<<"British Museum London", "Tate Modern London", "National Gallery London", "Westminster Abbey London">>)
      [] city = "london" /\ category = "tourist" ->
           Defined(<<"Big Ben London", "Tower Bridge London", "London Eye", "Buckingham Palace London">>)
      [] city = "london" /\ category = "food" ->
           Defined(<<"restaurants London", "Borough Market London", "Camden Market London food", "Covent Garden London">>)
      [] city = "london" /\ category = "shopping" ->
           Defined(<<"Oxford Street London", "Camden Market London shops", "Portobello Road London", "Covent Garden Market London">>)
      [] city = "istanbul" /\ category = "culture" ->
           Defined(<<"Hagia Sophia Istanbul", "Blue Mosque Istanbul", "Topkapi Palace Istanbul">>)
      [] city = "istanbul" /\ category = "tourist" ->
           Defined(<<"Galata Tower Istanbul", "Bosphorus Bridge Istanbul", "Taksim Square Istanbul">>)
      [] city = "istanbul" /\ category = "food" ->
           Defined(<<"restaurants Istanbul", "Grand Bazaar Istanbul food", "Eminonu Istanbul restaurants", "local food Istanbul">>)
      [] city = "istanbul" /\ category = "shopping" ->
           Defined(<<"Grand Bazaar Istanbul", "Istinye Park Istanbul", "Spice Bazaar Istanbul", "Nisantasi Istanbul">>)
      [] city = "barcelona" /\ category = "culture" ->
           Defined(<<"Sagrada Familia Barcelona", "Park Guell Barcelona", "Picasso Museum Barcelona">>)
      [] city = "barcelona" /\ category = "tourist" ->
           Defined(<<"Casa Batllo Barcelona", "Gothic Quarter Barcelona", "La Rambla Barcelona">>)
      [] city = "barcelona" /\ category = "food" ->
           Defined(<<"restaurants Barcelona", "Boqueria Market Barcelona", "Gothic Quarter Barcelona food", "local tapas Barcelona">>)
      [] city = "barcelona" /\ category = "shopping" ->
           Defined(<<"Passeig de Gracia Barcelona", "Gothic Quarter Barcelona shops", "El Born Barcelona markets">>)
      [] OTHER -> Undefined

\* the switch (category) of generateSearchQueries
genericQueries(city, category) ==
    CASE category = "culture" ->
           <<"museums " \o city, "temples " \o city, "heritage sites " \o city,
             "art galleries " \o city>>
      [] category = "food" ->
           <<"restaurants " \o city, "food markets " \o city, "local cuisine " \o city,
             "best places to eat " \o city>>
      [] category = "shopping" ->
           <<"famous markets " \o city, "shopping districts " \o city,
             "local bazaars " \o city, "markets " \o city>>
      [] category \in {"places", "tourist"} ->
           <<"tourist attractions " \o city, "landmarks " \o city, "monuments " \o city,
             "famous places " \o city>>
      [] OTHER -> <<category \o " in " \o city, "top " \o category \o " " \o city>>

generateSearchQueriesUncut(city, category) ==
    LET curated == cityData(city, category)
        q1 == IF curated.defined THEN Take(curated.value, 5) ELSE <<>>
        q2 == IF Len(q1) = 0 THEN genericQueries(city, category) ELSE q1
    IN  q2 \o <<category \o " in " \o city, "top " \o category \o " " \o city>>
generateSearchQueries(city, category) ==
    LET curated == cityData(city, category)
        q1 == IF curated.defined THEN Take(curated.value, 5) ELSE <<>>
        q2 == IF Len(q1) = 0 THEN genericQueries(city, category) ELSE q1
        q3 == q2 \o <<category \o " in " \o city, "top " \o category \o " " \o city>>
    IN  Take(q3, 5)

DemoPlace(name, address, type) ==
    [name |-> name, address |-> address, type |-> type, source |-> "Demo Data (API failed)"]

\* const fallbacks = { ... } of getFallbackPlaces
fallbacks(city, category) ==
    CASE city = "delhi" /\ category = "culture" -> Defined(<<
           DemoPlace("Red Fort", "Netaji Subhash Marg, Lal Qila, Delhi", "historical_monument"),
           DemoPlace("Qutub Minar", "Mehrauli, Delhi", "unesco_heritage"),
           DemoPlace("Humayun's Tomb", "Mathura Road, Delhi", "mughal_architecture")>>)
      [] city = "delhi" /\ category = "tourist" -> Defined(<<
           DemoPlace("India Gate", "Rajpath, New Delhi", "war_memorial"),
           DemoPlace("Lotus Temple", "Lotus Temple Road, Delhi", "bahai_temple"),
           DemoPlace("Akshardham Temple", "Noida Mor, Delhi", "hindu_temple")>>)
      [] city = "delhi" /\ category = "shopping" -> Defined(<<
           DemoPlace("Connaught Place", "Connaught Place, New Delhi", "shopping_district"),
           DemoPlace("Khan Market", "Khan Market, New Delhi", "market")>>)
      [] city = "delhi" /\ category = "food" -> Defined(<<
           DemoPlace("Chandni Chowk", "Chandni Chowk, Old Delhi", "food_street"),
           DemoPlace("Paranthe Wali Gali", "Chandni Chowk, Delhi", "food_lane")>>)
      [] city = "tokyo" /\ category = "culture" -> Defined(<<
           DemoPlace("Senso-ji Temple", "Asakusa, Tokyo", "buddhist_temple"),
           DemoPlace("Meiji Shrine", "Shibuya, Tokyo", "shinto_shrine"),
           DemoPlace("Tokyo National Museum", "Ueno, Tokyo", "museum")>>)
      [] city = "tokyo" /\ category = "tourist" -> Defined(<<
           DemoPlace("Tokyo Tower", "Minato, Tokyo", "landmark"),
           DemoPlace("Tokyo Skytree", "Sumida, Tokyo", "broadcasting_tower"),
           DemoPlace("Shibuya Crossing", "Shibuya, Tokyo", "intersection")>>)
      [] city = "tokyo" /\ category = "shopping" -> Defined(<<
           DemoPlace("Shibuya", "Shibuya, Tokyo", "shopping_district"),
           DemoPlace("Harajuku", "Harajuku, Tokyo", "fashion_district")>>)
      [] city = "tokyo" /\ category = "food" -> Defined(<<
           DemoPlace("Tsukiji Outer Market", "Chuo, Tokyo", "fish_market"),
           DemoPlace("Ramen Yokocho", "Shinjuku, Tokyo", "ramen_alley")>>)
      [] city = "mumbai" /\ category = "culture" -> Defined(<<
           DemoPlace("Gateway of India", "Apollo Bunder, Mumbai", "historical_monument"),
           DemoPlace("Chhatrapati Shivaji Terminus", "Fort, Mumbai", "railway_station")>>)
      [] city = "mumbai" /\ category = "tourist" -> Defined(<<
           DemoPlace("Marine Drive", "Marine Drive, Mumbai", "promenade"),
           DemoPlace("Juhu Beach", "Juhu, Mumbai", "beach")>>)
      [] city = "mumbai" /\ category = "shopping" -> Defined(<<
           DemoPlace("Linking Road", "Bandra West, Mumbai", "shopping_street"),
           DemoPlace("Colaba Causeway", "Colaba, Mumbai", "shopping_street")>>)
      [] city = "mumbai" /\ category = "food" -> Defined(<<
           DemoPlace("Mohammed Ali Road", "Mohammed Ali Road, Mumbai", "food_street")>>)
      [] city = "paris" /\ category = "culture" -> Defined(<<
           DemoPlace("Louvre Museum", "Rue de Rivoli, Paris", "art_museum"),
           DemoPlace("Notre-Dame", "Ile de la Cite, Paris", "cathedral")>>)
      [] city = "paris" /\ category = "tourist" -> Defined(<<
           DemoPlace("Eiffel Tower", "Champ de Mars, Paris", "iron_tower"),
           DemoPlace("Arc de Triomphe", "Place Charles de Gaulle, Paris", "triumphal_arch")>>)
      [] city = "paris" /\ category = "shopping" -> Defined(<<
           DemoPlace("Champs-Elysees", "Champs-Elysees, Paris", "shopping_avenue")>>)
      [] city = "paris" /\ category = "food" -> Defined(<<
           DemoPlace("Latin Quarter", "Latin Quarter, Paris", "dining_district")>>)
      [] city = "newyork" /\ category = "culture" -> Defined(<<
           DemoPlace("Metropolitan Museum", "Upper East Side, New York", "art_museum"),
           DemoPlace("MoMA", "Midtown Manhattan, New York", "modern_art_museum")>>)
      [] city = "newyork" /\ category = "tourist" -> Defined(<<
           DemoPlace("Statue of Liberty", "Liberty Island, New York", "statue"),
           DemoPlace("Central Park", "Manhattan, New York", "urban_park")>>)
      [] city = "newyork" /\ category = "shopping" -> Defined(<<
           DemoPlace("Fifth Avenue", "Fifth Avenue, Manhattan", "shopping_avenue")>>)
      [] city = "newyork" /\ category = "food" -> Defined(<<
           DemoPlace("Little Italy", "Little Italy, Manhattan", "ethnic_neighborhood")>>)
      [] city = "london" /\ category = "culture" -> Defined(<<
           DemoPlace("British Museum", "Great Russell Street, London", "history_museum"),
           DemoPlace("Tate Modern", "Bankside, London", "art_gallery")>>)
      [] city = "london" /\ category = "tourist" -> Defined(<<
           DemoPlace("Big Ben", "Westminster, London", "clock_tower"),
           DemoPlace("Tower Bridge", "Tower Hamlets, London", "bridge")>>)
      [] city = "london" /\ category = "shopping" -> Defined(<<
           DemoPlace("Oxford Street", "Oxford Street, London", "shopping_street")>>)
      [] city = "london" /\ category = "food" -> Defined(<<
           DemoPlace("Borough Market", "Southwark, London", "food_market")>>)
      [] city = "istanbul" /\ category = "culture" -> Defined(<<
           DemoPlace("Hagia Sophia", "Sultanahmet, Istanbul", "historical_building"),
           DemoPlace("Topkapi Palace", "Sultanahmet, Istanbul", "palace_museum")>>)
      [] city = "istanbul" /\ category = "tourist" -> Defined(<<
           DemoPlace("Blue Mosque", "Sultanahmet, Istanbul", "mosque"),
           DemoPlace("Galata Tower", "Galata, Istanbul", "medieval_tower")>>)
      [] city = "istanbul" /\ category = "shopping" -> Defined(<<
           DemoPlace("Grand Bazaar", "Beyazit, Istanbul", "covered_market")>>)
      [] city = "istanbul" /\ category = "food" -> Defined(<<
           DemoPlace("Eminonu", "Eminonu, Istanbul", "food_district")>>)
      [] city = "barcelona" /\ category = "culture" -> Defined(<<
           DemoPlace("Sagrada Familia", "Sagrada Familia, Barcelona", "basilica"),
           DemoPlace("Park Guell", "Gracia, Barcelona", "public_park")>>)
      [] city = "barcelona" /\ category = "tourist" -> Defined(<<
           DemoPlace("Casa Batllo", "Passeig de Gracia, Barcelona", "modernist_building"),
           DemoPlace("Gothic Quarter", "Ciutat Vella, Barcelona", "historic_district")>>)
      [] city = "barcelona" /\ category = "shopping" -> Defined(<<
           DemoPlace("Passeig de Gracia", "Passeig de Gracia, Barcelona", "shopping_avenue")>>)
      [] city = "barcelona" /\ category = "food" -> Defined(<<
           DemoPlace("Boqueria Market", "La Rambla, Barcelona", "public_market")>>)
      [] OTHER -> Undefined

getFallbackPlaces(city, category) ==
    LET cityFallbacks == fallbacks(city, category)
    IN  IF cityFallbacks.defined
        THEN cityFallbacks.value
        ELSE <<DemoPlace("Popular " \o category \o " destination in " \o city,
                         city \o " city center", category),
               DemoPlace("Local " \o category \o " spot in " \o city,
                         city \o " downtown area", category)>>

-----------------------------------------------------------------------------
(* PlacesAPI: raw geocoder records and their normalisation *)

\* A raw record of the geocoder's JSON array.
\*   display_name  the comma-separated parts of the string, <<>> when missing
\*   lat, lon      the coordinate strings: given or not, value in 1e-4 degree
\*   importance    in 1/100, 0 when missing (place.importance || 0)
\*   type, class   "" when missing
\*   namedetails   kind of namedetails.name: "absent", "string" or "number"
Coord(v) == [given |-> TRUE, e4 |-> v]
NoCoord == [given |-> FALSE, e4 |-> 0]
NoName == [kind |-> "absent", s |-> ""]

RawHit(dn, lat, lon, imp, type, class, nd) ==
    [display_name |-> dn, lat |-> lat, lon |-> lon, importance |-> imp,
     type |-> type, class |-> class, namedetails |-> nd]

HitSensoji ==
    RawHit(<<"Senso-ji", " Asakusa", " Tokyo">>, Coord(357148), Coord(1397967), 60,
           "place_of_worship", "amenity", NoName)
HitMeiji ==
    RawHit(<<"Meiji Shrine", " Shibuya", " Tokyo">>, Coord(356764), Coord(1396993), 55,
           "", "tourism", NoName)
HitNoLat ==
    RawHit(<<"Ueno Park", " Tokyo">>, NoCoord, Coord(1397714), 40, "park", "leisure", NoName)
HitNoDisplayName ==
    RawHit(<<>>, Coord(356586), Coord(1397454), 30, "tower", "man_made", NoName)
HitNumericName ==
    RawHit(<<"Tokyo Tower", " Tokyo">>, Coord(356586), Coord(1397454), 30, "tower",
           "man_made", [kind |-> "number", s |-> ""])

\* truthiness of place.display_name
HasDisplayName(place) == place.display_name # <<>> /\ place.display_name # <<"">>

\* String.prototype.trim and toLowerCase on the strings of this model
trim(str) ==
    CASE str = " Asakusa" -> "Asakusa" [] str = " Tokyo" -> "Tokyo"
      [] str = " Shibuya" -> "Shibuya" [] str = " " -> "" [] OTHER -> str

toLowerCase(str) ==
    CASE str = "Senso-ji" -> "senso-ji" [] str = "Meiji Shrine" -> "meiji shrine"
      [] str = "Ueno Park" -> "ueno park" [] str = "Tokyo Tower" -> "tokyo tower"
      [] str = "Red Fort" -> "red fort" [] str = "India Gate" -> "india gate"
      [] str = "Qutub Minar" -> "qutub minar" [] str = "Lotus Temple" -> "lotus temple"
      [] str = "Humayun Tomb" -> "humayun tomb"
      [] OTHER -> str

\* extractLocationName(place); a name that is not a string is kept as the
\* record [kind |-> "number"]
extractLocationName(place) ==
    IF place.namedetails.kind = "string" /\ place.namedetails.s # "" THEN place.namedetails
    ELSE IF place.namedetails.kind = "number" THEN place.namedetails
    ELSE IF HasDisplayName(place)
         THEN [kind |-> "string", s |-> trim(place.display_name[1])]
    ELSE IF place.type # "" THEN [kind |-> "string", s |-> place.type]
    ELSE [kind |-> "string", s |-> "Unnamed Location"]

normalizePlace(place) ==
    [name |-> extractLocationName(place),
     address |-> place.display_name,
     lat |-> place.lat.e4, lon |-> place.lon.e4,
     type |-> IF place.type # "" THEN place.type
              ELSE IF place.class # "" THEN place.class ELSE "attraction",
     category |-> place.class,
     importance |-> place.importance,
     source |-> "OpenStreetMap (LIVE)"]

\* data.filter(place => place.display_name && place.lat && place.lon).map(...)
usable(place) == HasDisplayName(place) /\ place.lat.given /\ place.lon.given

normalizeHits(data) ==
    LET kept == SelectSeq(data, usable)
    IN  [i \in 1..Len(kept) |-> normalizePlace(kept[i])]

\* Math.round(x * 1000) for x given in 1e-4 degree
round1000(e4) == (e4 + 5) \div 10

dedupeKeyExact(place) == <<place.name.s, round1000(place.lat), round1000(place.lon)>>
dedupeKey(place) == <<toLowerCase(place.name.s), round1000(place.lat), round1000(place.lon)>>

\* removeDuplicates(places): throws when a name has no toLowerCase method
RECURSIVE dedupeFrom(_, _, _)
dedupeFrom(places, i, seen) ==
    IF i > Len(places) THEN <<>>
    ELSE IF dedupeKey(places[i]) \in seen THEN dedupeFrom(places, i + 1, seen)
    ELSE <<places[i]>> \o dedupeFrom(places, i + 1, seen \cup {dedupeKey(places[i])})

removeDuplicatesThrows(places) == \E i \in 1..Len(places) : places[i].name.kind # "string"
\* a pass that drops only the first repeated hit it meets
RECURSIVE dedupeOnceFrom(_, _, _)
dedupeOnceFrom(places, i, seen) ==
    IF i > Len(places) THEN <<>>
    ELSE IF dedupeKey(places[i]) \in seen THEN SubSeq(places, i + 1, Len(places))
    ELSE <<places[i]>> \o dedupeOnceFrom(places, i + 1, seen \cup {dedupeKey(places[i])})
removeDuplicatesOnce(places) == dedupeOnceFrom(places, 1, {})
removeDuplicates(places) == dedupeFrom(places, 1, {})

\* .sort((a, b) => (b.importance || 0) - (a.importance || 0)): Array.prototype.sort
\* is stable, so this is an insertion of each element after the last element that
\* is not smaller.
\* an insertion that puts an element before those of equal importance
RECURSIVE insertDescBeforeEqual(_, _)
insertDescBeforeEqual(sorted, x) ==
    IF sorted = <<>> THEN <<x>>
    ELSE IF Head(sorted).importance > x.importance
         THEN <<Head(sorted)>> \o insertDescBeforeEqual(Tail(sorted), x)
         ELSE <<x>> \o sorted
RECURSIVE insertDesc(_, _)
insertDesc(sorted, x) ==
    IF sorted = <<>> THEN <<x>>
    ELSE IF Head(sorted).importance >= x.importance
         THEN <<Head(sorted)>> \o insertDesc(Tail(sorted), x)
         ELSE <<x>> \o sorted

sortByArrival(places) == places
RECURSIVE sortByImportance(_)
sortByImportance(places) ==
    IF places = <<>> THEN <<>>
    ELSE insertDesc(sortByImportance(SubSeq(places, 1, Len(places) - 1)),
                    places[Len(places)])

-----------------------------------------------------------------------------
(* AIAPI: the keyword classifier *)

\* the characters of the strings used as messages and keywords
chars(str) ==
    CASE str = "Find the best restaurants and local food places" ->
           <<"F", "i", "n", "d", " ", "t", "h", "e", " ", "b", "e", "s", "t", " ", "r",
             "e", "s", "t", "a", "u", "r", "a", "n", "t", "s", " ", "a", "n", "d", " ",
             "l", "o", "c", "a", "l", " ", "f", "o", "o", "d", " ", "p", "l", "a", "c",
             "e", "s">>
      [] str = "Find top tourist attractions and landmarks" ->
           <<"F", "i", "n", "d", " ", "t", "o", "p", " ", "t", "o", "u", "r", "i", "s",
             "t", " ", "a", "t", "t", "r", "a", "c", "t", "i", "o", "n", "s", " ", "a",
             "n", "d", " ", "l", "a", "n", "d", "m", "a", "r", "k", "s">>
      [] str = "Get current weather conditions" ->
           <<"G", "e", "t", " ", "c", "u", "r", "r", "e", "n", "t", " ", "w", "e", "a",
             "t", "h", "e", "r", " ", "c", "o", "n", "d", "i", "t", "i", "o", "n", "s">>
      [] str = "What cultural events and activities are happening" ->
           <<"W", "h", "a", "t", " ", "c", "u", "l", "t", "u", "r", "a", "l", " ", "e",
             "v", "e", "n", "t", "s", " ", "a", "n", "d", " ", "a", "c", "t", "i", "v",
             "i", "t", "i", "e", "s", " ", "a", "r", "e", " ", "h", "a", "p", "p", "e",
             "n", "i", "n", "g">>
      [] str = "Find museums temples and cultural sites" ->
           <<"F", "i", "n", "d", " ", "m", "u", "s", "e", "u", "m", "s", " ", "t", "e",
             "m", "p", "l", "e", "s", " ", "a", "n", "d", " ", "c", "u", "l", "t", "u",
             "r", "a", "l", " ", "s", "i", "t", "e", "s">>
      [] str = "Find the best shopping districts and markets" ->
           <<"F", "i", "n", "d", " ", "t", "h", "e", " ", "b", "e", "s", "t", " ", "s",
             "h", "o", "p", "p", "i", "n", "g", " ", "d", "i", "s", "t", "r", "i", "c",
             "t", "s", " ", "a", "n", "d", " ", "m", "a", "r", "k", "e", "t", "s">>
      [] str = "Find traditional clothing and cultural wear options" ->
           <<"F", "i", "n", "d", " ", "t", "r", "a", "d", "i", "t", "i", "o", "n", "a",
             "l", " ", "c", "l", "o", "t", "h", "i", "n", "g", " ", "a", "n", "d", " ",
             "c", "u", "l", "t", "u", "r", "a", "l", " ", "w", "e", "a", "r", " ", "o",
             "p", "t", "i", "o", "n", "s">>
      [] str = "Give me comprehensive local recommendations and insider tips" ->
           <<"G", "i", "v", "e", " ", "m", "e", " ", "c", "o", "m", "p", "r", "e", "h",
             "e", "n", "s", "i", "v", "e", " ", "l", "o", "c", "a", "l", " ", "r", "e",
             "c", "o", "m", "m", "e", "n", "d", "a", "t", "i", "o", "n", "s", " ", "a",
             "n", "d", " ", "i", "n", "s", "i", "d", "e", "r", " ", "t", "i", "p", "s">>
      [] str = "Find nearby restaurants" ->
           <<"F", "i", "n", "d", " ", "n", "e", "a", "r", "b", "y", " ", "r", "e", "s",
             "t", "a", "u", "r", "a", "n", "t", "s">>
      [] str = "Show me interesting places" ->
           <<"S", "h", "o", "w", " ", "m", "e", " ", "i", "n", "t", "e", "r", "e", "s",
             "t", "i", "n", "g", " ", "p", "l", "a", "c", "e", "s">>
      [] str = "Get current weather" ->
           <<"G", "e", "t", " ", "c", "u", "r", "r", "e", "n", "t", " ", "w", "e", "a",
             "t", "h", "e", "r">>
      [] str = "What events are happening" ->
           <<"W", "h", "a", "t", " ", "e", "v", "e", "n", "t", "s", " ", "a", "r", "e",
             " ", "h", "a", "p", "p", "e", "n", "i", "n", "g">>
      [] str = "Show cultural sites" ->
           <<"S", "h", "o", "w", " ", "c", "u", "l", "t", "u", "r", "a", "l", " ", "s",
             "i", "t", "e", "s">>
      [] str = "Find shopping areas" ->
           <<"F", "i", "n", "d", " ", "s", "h", "o", "p", "p", "i", "n", "g", " ", "a",
             "r", "e", "a", "s">>
      [] str = "Show traditional clothing options" ->
           <<"S", "h", "o", "w", " ", "t", "r", "a", "d", "i", "t", "i", "o", "n", "a",
             "l", " ", "c", "l", "o", "t", "h", "i", "n", "g", " ", "o", "p", "t", "i",
             "o", "n", "s">>
      [] str = "Give me comprehensive local recommendations" ->
           <<"G", "i", "v", "e", " ", "m", "e", " ", "c", "o", "m", "p", "r", "e", "h",
             "e", "n", "s", "i", "v", "e", " ", "l", "o", "c", "a", "l", " ", "r", "e",
             "c", "o", "m", "m", "e", "n", "d", "a", "t", "i", "o", "n", "s">>
      [] str = "Tell me about this category" ->
           <<"T", "e", "l", "l", " ", "m", "e", " ", "a", "b", "o", "u", "t", " ", "t",
             "h", "i", "s", " ", "c", "a", "t", "e", "g", "o", "r", "y">>
      [] str = "What's the weather like?" ->
           <<"W", "h", "a", "t", "'", "s", " ", "t", "h", "e", " ", "w", "e", "a", "t",
             "h", "e", "r", " ", "l", "i", "k", "e", "?">>
      [] str = "Hello" ->
           <<"H", "e", "l", "l", "o">>
      [] str = "WEATHER and food" ->
           <<"W", "E", "A", "T", "H", "E", "R", " ", "a", "n", "d", " ", "f", "o", "o",
             "d">>
      [] str = "Where can I buy a kimono?" ->
           <<"W", "h", "e", "r", "e", " ", "c", "a", "n", " ", "I", " ", "b", "u", "y",
             " ", "a", " ", "k", "i", "m", "o", "n", "o", "?">>
      [] str = "weather" ->
           <<"w", "e", "a", "t", "h", "e", "r">>
      [] str = "temperature" ->
           <<"t", "e", "m", "p", "e", "r", "a", "t", "u", "r", "e">>
      [] str = "climate" ->
           <<"c", "l", "i", "m", "a", "t", "e">>
      [] str = "forecast" ->
           <<"f", "o", "r", "e", "c", "a", "s", "t">>
      [] str = "food" ->
           <<"f", "o", "o", "d">>
      [] str = "restaurant" ->
           <<"r", "e", "s", "t", "a", "u", "r", "a", "n", "t">>
      [] str = "eat" ->
           <<"e", "a", "t">>
      [] str = "dining" ->
           <<"d", "i", "n", "i", "n", "g">>
      [] str = "cuisine" ->
           <<"c", "u", "i", "s", "i", "n", "e">>
      [] str = "lunch" ->
           <<"l", "u", "n", "c", "h">>
      [] str = "dinner" ->
           <<"d", "i", "n", "n", "e", "r">>
      [] str = "breakfast" ->
           <<"b", "r", "e", "a", "k", "f", "a", "s", "t">>
      [] str = "cafe" ->
           <<"c", "a", "f", "e">>
      [] str = "local food" ->
           <<"l", "o", "c", "a", "l", " ", "f", "o", "o", "d">>
      [] str = "street food" ->
           <<"s", "t", "r", "e", "e", "t", " ", "f", "o", "o", "d">>
      [] str = "culture" ->
           <<"c", "u", "l", "t", "u", "r", "e">>
      [] str = "museum" ->
           <<"m", "u", "s", "e", "u", "m">>
      [] str = "temple" ->
           <<"t", "e", "m", "p", "l", "e">>
      [] str = "heritage" ->
           <<"h", "e", "r", "i", "t", "a", "g", "e">>
      [] str = "historical" ->
           <<"h", "i", "s", "t", "o", "r", "i", "c", "a", "l">>
      [] str = "monument" ->
           <<"m", "o", "n", "u", "m", "e", "n", "t">>
      [] str = "cultural sites" ->
           <<"c", "u", "l", "t", "u", "r", "a", "l", " ", "s", "i", "t", "e", "s">>
      [] str = "art" ->
           <<"a", "r", "t">>
      [] str = "gallery" ->
           <<"g", "a", "l", "l", "e", "r", "y">>
      [] str = "cultural attractions" ->
           <<"c", "u", "l", "t", "u", "r", "a", "l", " ", "a", "t", "t", "r", "a", "c",
             "t", "i", "o", "n", "s">>
      [] str = "shopping" ->
           <<"s", "h", "o", "p", "p", "i", "n", "g">>
      [] str = "shop" ->
           <<"s", "h", "o", "p">>
      [] str = "market" ->
           <<"m", "a", "r", "k", "e", "t">>
      [] str = "mall" ->
           <<"m", "a", "l", "l">>
      [] str = "buy" ->
           <<"b", "u", "y">>
      [] str = "store" ->
           <<"s", "t", "o", "r", "e">>
      [] str = "shopping area" ->
           <<"s", "h", "o", "p", "p", "i", "n", "g", " ", "a", "r", "e", "a">>
      [] str = "boutique" ->
           <<"b", "o", "u", "t", "i", "q", "u", "e">>
      [] str = "bazaar" ->
           <<"b", "a", "z", "a", "a", "r">>
      [] str = "shopping district" ->
           <<"s", "h", "o", "p", "p", "i", "n", "g", " ", "d", "i", "s", "t", "r", "i",
             "c", "t">>
      [] str = "event" ->
           <<"e", "v", "e", "n", "t">>
      [] str = "festival" ->
           <<"f", "e", "s", "t", "i", "v", "a", "l">>
      [] str = "concert" ->
           <<"c", "o", "n", "c", "e", "r", "t">>
      [] str = "performance" ->
           <<"p", "e", "r", "f", "o", "r", "m", "a", "n", "c", "e">>
      [] str = "happening" ->
           <<"h", "a", "p", "p", "e", "n", "i", "n", "g">>
      [] str = "activities" ->
           <<"a", "c", "t", "i", "v", "i", "t", "i", "e", "s">>
      [] str = "entertainment" ->
           <<"e", "n", "t", "e", "r", "t", "a", "i", "n", "m", "e", "n", "t">>
      [] str = "nightlife" ->
           <<"n", "i", "g", "h", "t", "l", "i", "f", "e">>
      [] str = "what to do" ->
           <<"w", "h", "a", "t", " ", "t", "o", " ", "d", "o">>
      [] str = "clothing" ->
           <<"c", "l", "o", "t", "h", "i", "n", "g">>
      [] str = "traditional" ->
           <<"t", "r", "a", "d", "i", "t", "i", "o", "n", "a", "l">>
      [] str = "wear" ->
           <<"w", "e", "a", "r">>
      [] str = "dress" ->
           <<"d", "r", "e", "s", "s">>
      [] str = "costume" ->
           <<"c", "o", "s", "t", "u", "m", "e">>
      [] str = "attire" ->
           <<"a", "t", "t", "i", "r", "e">>
      [] str = "kimono" ->
           <<"k", "i", "m", "o", "n", "o">>
      [] str = "saree" ->
           <<"s", "a", "r", "e", "e">>
      [] str = "traditional wear" ->
           <<"t", "r", "a", "d", "i", "t", "i", "o", "n", "a", "l", " ", "w", "e", "a",
             "r">>
      [] str = "cultural clothing" ->
           <<"c", "u", "l", "t", "u", "r", "a", "l", " ", "c", "l", "o", "t", "h", "i",
             "n", "g">>
      [] str = "places" ->
           <<"p", "l", "a", "c", "e", "s">>
      [] str = "attractions" ->
           <<"a", "t", "t", "r", "a", "c", "t", "i", "o", "n", "s">>
      [] str = "landmarks" ->
           <<"l", "a", "n", "d", "m", "a", "r", "k", "s">>
      [] str = "visit" ->
           <<"v", "i", "s", "i", "t">>
      [] str = "sightseeing" ->
           <<"s", "i", "g", "h", "t", "s", "e", "e", "i", "n", "g">>
      [] str = "tourist" ->
           <<"t", "o", "u", "r", "i", "s", "t">>
      [] str = "interesting places" ->
           <<"i", "n", "t", "e", "r", "e", "s", "t", "i", "n", "g", " ", "p", "l", "a",
             "c", "e", "s">>
      [] str = "must see" ->
           <<"m", "u", "s", "t", " ", "s", "e", "e">>
      [] str = "famous places" ->
           <<"f", "a", "m", "o", "u", "s", " ", "p", "l", "a", "c", "e", "s">>
      [] str = "tourist attractions" ->
           <<"t", "o", "u", "r", "i", "s", "t", " ", "a", "t", "t", "r", "a", "c", "t",
             "i", "o", "n", "s">>
      [] str = "local" ->
           <<"l", "o", "c", "a", "l">>
      [] str = "recommendation" ->
           <<"r", "e", "c", "o", "m", "m", "e", "n", "d", "a", "t", "i", "o", "n">>
      [] str = "guide" ->
           <<"g", "u", "i", "d", "e">>
      [] str = "comprehensive" ->
           <<"c", "o", "m", "p", "r", "e", "h", "e", "n", "s", "i", "v", "e">>
      [] str = "local guide" ->
           <<"l", "o", "c", "a", "l", " ", "g", "u", "i", "d", "e">>
      [] str = "insider tips" ->
           <<"i", "n", "s", "i", "d", "e", "r", " ", "t", "i", "p", "s">>
      [] str = "what locals do" ->
           <<"w", "h", "a", "t", " ", "l", "o", "c", "a", "l", "s", " ", "d", "o">>
      [] str = "local experience" ->
           <<"l", "o", "c", "a", "l", " ", "e", "x", "p", "e", "r", "i", "e", "n", "c",
             "e">>
      [] str = "comprehensive guide" ->
           <<"c", "o", "m", "p", "r", "e", "h", "e", "n", "s", "i", "v", "e", " ", "g",
             "u", "i", "d", "e">>

lowerChar(ch) ==
    CASE ch = "A" -> "a" [] ch = "B" -> "b" [] ch = "C" -> "c" [] ch = "D" -> "d"
      [] ch = "E" -> "e" [] ch = "F" -> "f" [] ch = "G" -> "g" [] ch = "H" -> "h"
      [] ch = "I" -> "i" [] ch = "J" -> "j" [] ch = "K" -> "k" [] ch = "L" -> "l"
      [] ch = "M" -> "m" [] ch = "N" -> "n" [] ch = "O" -> "o" [] ch = "P" -> "p"
      [] ch = "Q" -> "q" [] ch = "R" -> "r" [] ch = "S" -> "s" [] ch = "T" -> "t"
      [] ch = "U" -> "u" [] ch = "V" -> "v" [] ch = "W" -> "w" [] ch = "X" -> "x"
      [] ch = "Y" -> "y" [] ch = "Z" -> "z" [] OTHER -> ch

\* message.toLowerCase(), as characters
lowerOf(message) == [i \in 1..Len(chars(message)) |-> lowerChar(chars(message)[i])]

\* lower.includes(keyword)
includes(lower, keyword) ==
    LET k == chars(keyword)
    IN  \E i \in 0..(Len(lower) - Len(k)) : SubSeq(lower, i + 1, i + Len(k)) = k

keywordRulesFull(lower) ==
    IF includes(lower, "weather") \/ includes(lower, "temperature") \/
            includes(lower, "climate") \/ includes(lower, "forecast")
    THEN [intent |-> "weather", confidence |-> 90]
    ELSE IF includes(lower, "food") \/ includes(lower, "restaurant") \/
            includes(lower, "eat") \/ includes(lower, "dining") \/
            includes(lower, "cuisine") \/ includes(lower, "lunch") \/
            includes(lower, "dinner") \/ includes(lower, "breakfast") \/
            includes(lower, "cafe") \/ includes(lower, "local food") \/
            includes(lower, "street food")
    THEN [intent |-> "food", confidence |-> 90]
    ELSE IF includes(lower, "culture") \/ includes(lower, "museum") \/
            includes(lower, "temple") \/ includes(lower, "heritage") \/
            includes(lower, "historical") \/ includes(lower, "monument") \/
            includes(lower, "cultural sites") \/ includes(lower, "art") \/
            includes(lower, "gallery") \/ includes(lower, "cultural attractions")
    THEN [intent |-> "culture", confidence |-> 90]
    ELSE IF includes(lower, "shopping") \/ includes(lower, "shop") \/
            includes(lower, "market") \/ includes(lower, "mall") \/
            includes(lower, "buy") \/ includes(lower, "store") \/
            includes(lower, "shopping area") \/ includes(lower, "boutique") \/
            includes(lower, "bazaar") \/ includes(lower, "shopping district")
    THEN [intent |-> "shopping", confidence |-> 90]
    ELSE IF includes(lower, "event") \/ includes(lower, "festival") \/
            includes(lower, "concert") \/ includes(lower, "performance") \/
            includes(lower, "happening") \/ includes(lower, "activities") \/
            includes(lower, "entertainment") \/ includes(lower, "nightlife") \/
            includes(lower, "what to do")
    THEN [intent |-> "events", confidence |-> 90]
    ELSE IF includes(lower, "clothing") \/ includes(lower, "traditional") \/
            includes(lower, "wear") \/ includes(lower, "dress") \/
            includes(lower, "costume") \/ includes(lower, "attire") \/
            includes(lower, "kimono") \/ includes(lower, "saree") \/
            includes(lower, "traditional wear") \/ includes(lower, "cultural clothing")
    THEN [intent |-> "clothing", confidence |-> 90]
    ELSE IF includes(lower, "places") \/ includes(lower, "attractions") \/
            includes(lower, "landmarks") \/ includes(lower, "visit") \/
            includes(lower, "sightseeing") \/ includes(lower, "tourist") \/
            includes(lower, "interesting places") \/ includes(lower, "must see") \/
            includes(lower, "famous places") \/ includes(lower, "tourist attractions")
    THEN [intent |-> "places", confidence |-> 90]
    ELSE IF includes(lower, "local") \/ includes(lower, "recommendation") \/
            includes(lower, "guide") \/ includes(lower, "comprehensive") \/
            includes(lower, "local guide") \/ includes(lower, "insider tips") \/
            includes(lower, "what locals do") \/ includes(lower, "local experience") \/
            includes(lower, "comprehensive guide")
    THEN [intent |-> "local", confidence |-> 90]
    ELSE [intent |-> "general", confidence |-> 70]

keywordRulesLegacy(lower) ==
    IF includes(lower, "weather")
    THEN [intent |-> "weather", confidence |-> 90]
    ELSE IF includes(lower, "food") \/ includes(lower, "restaurant")
    THEN [intent |-> "food", confidence |-> 90]
    ELSE IF includes(lower, "culture") \/ includes(lower, "museum")
    THEN [intent |-> "culture", confidence |-> 90]
    ELSE IF includes(lower, "event")
    THEN [intent |-> "events", confidence |-> 90]
    ELSE IF includes(lower, "clothing") \/ includes(lower, "traditional") \/
            includes(lower, "wear")
    THEN [intent |-> "clothing", confidence |-> 90]
    ELSE IF includes(lower, "local") \/ includes(lower, "recommendation") \/
            includes(lower, "guide")
    THEN [intent |-> "local", confidence |-> 90]
    ELSE [intent |-> "general", confidence |-> 70]

getSimulatedResponse(v, message) ==
    LET r == IF v = "full" THEN keywordRulesFull(lowerOf(message))
             ELSE keywordRulesLegacy(lowerOf(message))
    IN  [kind |-> "intent", intent |-> r.intent, confidence |-> r.confidence,
         source |-> "keywords"]

-----------------------------------------------------------------------------
(* NewsAPI *)

getSimulatedEvents(city, id) ==
    [kind |-> "events", oid |-> id,
     items |-> <<[title |-> "Local Cultural Festival in " \o city,
                  description |-> "Traditional music and food festival happening this weekend",
                  source |-> "Local Events (Demo)"]>>]

-----------------------------------------------------------------------------
(* Provider calls *)

IdleCall ==
    [pc |-> "idle", api |-> "none", city |-> "", category |-> "", message |-> "",
     id |-> 0, preFresh |-> FALSE, preData |-> NoResult, reqs |-> 0,
     plan |-> <<>>, qi |-> 0, allPlaces |-> <<>>, result |-> NoResult, via |-> "none",
     threw |-> FALSE]

\* A call as it is entered.  preFresh and preData record what the cache held
\* for the call's key at that moment (history, not read by the code).
NewCall(p, city, category, id, t, c) ==
    LET entry == IF p \in Cached THEN cacheGet(c, p, cacheKey(p, city, category)) ELSE NoEntry
    IN  [IdleCall EXCEPT
            !.pc = "run", !.api = p, !.city = city, !.category = category, !.id = id,
            !.preFresh = entry.present /\ t - entry.timestamp < cacheTimeout(p),
            !.preData = IF entry.present THEN entry.data ELSE NoResult]

\* the call has returned: its locals are gone, its result is kept
Finished(call, r) ==
    [call EXCEPT !.pc = "done", !.result = r.value, !.threw = (r.kind = "throw"),
                 !.via = r.via, !.qi = 0, !.allPlaces = <<>>]

Fetching(call) == [call EXCEPT !.pc = "fetch", !.reqs = @ + 1]

\* WeatherAPI.getCurrentWeather up to its first await
getCurrentWeather(call, c, n, t, on) ==
    LET cached == cacheGet(c, "weather", cacheKey("weather", call.city, call.category))
    IN  IF IsFresh(cached, t, WeatherCacheTimeout)
        THEN Finished(call, ReturnCached(cached.data, c, n))
        ELSE IF on["weather"]
             THEN Fetching(call)
             ELSE Finished(call, ReturnFallback(getSimulatedWeather(call.city, t, call.id), c, n))

\* a new call takes the first slot that holds no call in flight
FreeSlot(s) ==
    /\ calls[s].pc \in {"idle", "done"}
    /\ \A r \in Slots : r < s => calls[r].pc \notin {"idle", "done"}

StartWeather(s, city) ==
    /\ FreeSlot(s)
    /\ started < MaxCalls
    /\ started' = started + 1
    /\ calls' = [calls EXCEPT ![s] =
                    getCurrentWeather(NewCall("weather", city, "", started + 1, now, cache),
                                      cache, apiCallCount, now, enabled)]
    /\ UNCHANGED <<variant, enabled, now, cache, apiCallCount, currentCity, chat>>

WeatherResponse(s, resp) ==
    /\ calls[s].pc = "fetch"
    /\ calls[s].api = "weather"
    /\ LET r == WeatherAfterTry(calls[s],
                    Catch(WeatherTryBody(calls[s], resp, cache, apiCallCount, now)), now)
       IN  /\ cache' = r.cache
           /\ apiCallCount' = r.count
           /\ calls' = [calls EXCEPT ![s] = Finished(calls[s], r)]
    /\ UNCHANGED <<variant, enabled, now, started, currentCity, chat>>

-----------------------------------------------------------------------------
(* NewsAPI.getLocalEvents *)

Article == [title |-> "Festival opens", description |-> "d", url |-> "u",
            publishedAt |-> "p", hasSource |-> TRUE, sourceName |-> "Daily"]

\* what fetch + response.json() can settle to; articles is Undefined when the
\* body has no articles array
NewsResponses ==
    { [net |-> "reject"], [net |-> "status"], [net |-> "badjson"] } \cup
    { [net |-> "ok", articles |-> a] :
        a \in { Undefined, Defined(<<>>), Defined(<<Article>>),
                Defined(<<[Article EXCEPT !.hasSource = FALSE]>>) } }

newsEvent(article) ==
    [title |-> article.title, description |-> article.description, url |-> article.url,
     publishedAt |-> article.publishedAt, source |-> article.sourceName]

NewsTryBody(call, resp, c, n, t) ==
    IF resp.net = "reject" \/ resp.net = "badjson" THEN Throw(c, n)
    ELSE IF resp.net = "status" THEN FallThrough(c, n)
    ELSE IF ~resp.articles.defined THEN Throw(c, n)
    ELSE IF \E i \in 1..Len(resp.articles.value) : ~resp.articles.value[i].hasSource
         THEN Throw(c, n)
    ELSE LET events ==
                 [kind |-> "events", oid |-> call.id,
                  items |-> [i \in 1..Len(resp.articles.value) |->
                                newsEvent(resp.articles.value[i])]]
         IN  Return(events,
                    cacheSet(c, "news", cacheKey("news", call.city, call.category),
                             events, t),
                    [n EXCEPT !["news"] = @ + 1])

NewsAfterTry(call, r, t) ==
    IF r.kind = "next"
    THEN ReturnFallback(getSimulatedEvents(call.city, call.id), r.cache, r.count)
    ELSE r

getLocalEvents(call, c, n, t, on) ==
    LET cached == cacheGet(c, "news", cacheKey("news", call.city, call.category))
    IN  IF IsFresh(cached, t, NewsCacheTimeout)
        THEN Finished(call, ReturnCached(cached.data, c, n))
        ELSE IF on["news"]
             THEN Fetching(call)
             ELSE Finished(call, ReturnFallback(getSimulatedEvents(call.city, call.id), c, n))

StartNews(s, city) ==
    /\ FreeSlot(s)
    /\ started < MaxCalls
    /\ started' = started + 1
    /\ calls' = [calls EXCEPT ![s] =
                    getLocalEvents(NewCall("news", city, "", started + 1, now, cache),
                                   cache, apiCallCount, now, enabled)]
    /\ UNCHANGED <<variant, enabled, now, cache, apiCallCount, currentCity, chat>>

NewsResponse(s, resp) ==
    /\ calls[s].pc = "fetch"
    /\ calls[s].api = "news"
    /\ LET r == NewsAfterTry(calls[s],
                    Catch(NewsTryBody(calls[s], resp, cache, apiCallCount, now)), now)
       IN  /\ cache' = r.cache
           /\ apiCallCount' = r.count
           /\ calls' = [calls EXCEPT ![s] = Finished(calls[s], r)]
    /\ UNCHANGED <<variant, enabled, now, started, currentCity, chat>>

-----------------------------------------------------------------------------
(* PlacesAPI.searchPlaces, full build *)

\* what one query's fetch + response.json() can settle to
PlacesResponses ==
    { [net |-> "reject"], [net |-> "status"], [net |-> "notarray"] } \cup
    { [net |-> "ok", data |-> d] :
        d \in { <<>>, <<HitSensoji>>, <<HitMeiji, HitNoLat>>, <<HitNoDisplayName>>,
                <<HitNumericName>> } }

\* one iteration of for (const query of searchQueries): its inner try block ...
queryTryBody(allPlaces, resp) ==
    IF resp.net = "reject" \/ resp.net = "notarray"
    THEN [kind |-> "throw", places |-> allPlaces]
    ELSE IF resp.net = "status" THEN [kind |-> "next", places |-> allPlaces]
    ELSE [kind |-> "next", places |-> allPlaces \o normalizeHits(resp.data)]

\* a query whose error ends the loop
queryRethrow(r) == r

\* ... and its catch (queryError)
queryCatch(r) == [r EXCEPT !.kind = "next"]

\* the statements after the loop, inside the outer try
placesRank(call, allPlaces, c, n, t) ==
    IF removeDuplicatesThrows(allPlaces) THEN Throw(c, n)
    ELSE LET uniquePlaces == removeDuplicates(allPlaces)
             sortedPlaces == Take(sortByImportance(uniquePlaces), 5)
             data == [kind |-> "places", oid |-> call.id, items |-> sortedPlaces]
         IN  IF Len(sortedPlaces) > 0
             THEN Return(data,
                         cacheSet(c, "places",
                                  cacheKey("places", call.city, call.category), data, t),
                         [n EXCEPT !["places"] = @ + 1])
             ELSE FallThrough(c, n)

placesAfterTryCaching(call, r, t) ==
    IF r.kind = "next"
    THEN LET data == [kind |-> "places", oid |-> call.id,
                      items |-> getFallbackPlaces(call.city, call.category)]
         IN  ReturnFallback(data,
                    cacheSet(r.cache, "places",
                             cacheKey("places", call.city, call.category), data, t),
                    r.count)
    ELSE r
placesAfterTry(call, r, t) ==
    IF r.kind = "next"
    THEN ReturnFallback([kind |-> "places", oid |-> call.id,
                 items |-> getFallbackPlaces(call.city, call.category)],
                r.cache, r.count)
    ELSE r

\* searchPlaces up to its first await
searchPlaces(call, c, n, t) ==
    LET cached == cacheGet(c, "places", cacheKey("places", call.city, call.category))
    IN  IF IsFresh(cached, t, PlacesCacheTimeout)
        THEN Finished(call, ReturnCached(cached.data, c, n))
        ELSE [Fetching(call) EXCEPT
                 !.plan = generateSearchQueries(call.city, call.category), !.qi = 1]

\* searchPlaces from the settling of query qi to the next await or the return
searchPlacesStep(call, resp, c, n, t) ==
    LET q == queryCatch(queryTryBody(call.allPlaces, resp))
    IN  IF q.kind = "throw"
        THEN LET r == placesAfterTry(call, Catch(Throw(c, n)), t)
             IN  [call |-> Finished(call, r), cache |-> r.cache, count |-> r.count]
        ELSE IF call.qi < Len(call.plan)
        THEN [call |-> [Fetching(call) EXCEPT !.qi = @ + 1, !.allPlaces = q.places],
              cache |-> c, count |-> n]
        ELSE LET r == placesAfterTry(call, Catch(placesRank(call, q.places, c, n, t)), t)
             IN  [call |-> Finished(call, r),
                  cache |-> r.cache, count |-> r.count]

-----------------------------------------------------------------------------
(* PlacesAPI.searchPlaces, legacy build *)

legacyPlace(place) ==
    [name |-> [kind |-> "string", s |-> place.display_name[1]],
     address |-> place.display_name, lat |-> place.lat, lon |-> place.lon,
     type |-> place.type, source |-> "OpenStreetMap"]

legacyTryBody(call, resp, c, n, t) ==
    IF resp.net = "reject" \/ resp.net = "notarray" THEN Throw(c, n)
    ELSE IF resp.net = "status" THEN FallThrough(c, n)
    ELSE IF \E i \in 1..Len(resp.data) : resp.data[i].display_name = <<>> THEN Throw(c, n)
    ELSE LET data == [kind |-> "places", oid |-> call.id,
                      items |-> [i \in 1..Len(resp.data) |-> legacyPlace(resp.data[i])]]
         IN  Return(data,
                    cacheSet(c, "places",
                             cacheKey("places", call.city, call.category), data, t),
                    [n EXCEPT !["places"] = @ + 1])

\* return [];
legacyAfterTry(call, r, t) ==
    IF r.kind = "next"
    THEN ReturnFallback([kind |-> "places", oid |-> call.id, items |-> <<>>], r.cache, r.count)
    ELSE r

legacySearchPlaces(call, c, n, t) ==
    LET cached == cacheGet(c, "places", cacheKey("places", call.city, call.category))
    IN  IF IsFresh(cached, t, PlacesCacheTimeout)
        THEN Finished(call, ReturnCached(cached.data, c, n))
        ELSE [Fetching(call) EXCEPT !.qi = 1]

legacySearchPlacesStep(call, resp, c, n, t) ==
    LET r == legacyAfterTry(call, Catch(legacyTryBody(call, resp, c, n, t)), t)
    IN  [call |-> Finished(call, r), cache |-> r.cache, count |-> r.count]

StartPlaces(s, city, category) ==
    /\ FreeSlot(s)
    /\ started < MaxCalls
    /\ started' = started + 1
    /\ LET call == NewCall("places", city, category, started + 1, now, cache)
       IN  calls' = [calls EXCEPT ![s] =
                        IF variant = "full"
                        THEN searchPlaces(call, cache, apiCallCount, now)
                        ELSE legacySearchPlaces(call, cache, apiCallCount, now)]
    /\ UNCHANGED <<variant, enabled, now, cache, apiCallCount, currentCity, chat>>

PlacesResponse(s, resp) ==
    /\ calls[s].pc = "fetch"
    /\ calls[s].api = "places"
    /\ resp.net = "ok" /\ variant = "full" =>
           Len(calls[s].allPlaces) + Len(normalizeHits(resp.data)) <= MaxHits
    /\ LET r == IF variant = "full"
                THEN searchPlacesStep(calls[s], resp, cache, apiCallCount, now)
                ELSE legacySearchPlacesStep(calls[s], resp, cache, apiCallCount, now)
       IN  /\ cache' = r.cache
           /\ apiCallCount' = r.count
           /\ calls' = [calls EXCEPT ![s] = r.call]
    /\ UNCHANGED <<variant, enabled, now, started, currentCity, chat>>

-----------------------------------------------------------------------------
(* AIAPI.processQuery *)

\* what the classifier's fetch + response.json() can settle to; labels is
\* Undefined when the body has no labels array
\* and scores when it has no scores array; a score is in 1/100
AIResponses ==
    { [net |-> "reject"], [net |-> "status"], [net |-> "badjson"] } \cup
    { [net |-> "ok", labels |-> r[1], scores |-> r[2]] :
        r \in { <<Undefined, Undefined>>,
                <<Defined(<<"weather", "food">>), Undefined>>,
                <<Defined(<<>>), Defined(<<>>)>>,
                <<Defined(<<"weather", "food">>), Defined(<<95, 3>>)>>,
                <<Defined(<<"traditional", "clothing">>), Defined(<<60, 30>>)>> } }

\* data.scores[0]; -1 stands for undefined
topScore(scores) == IF Len(scores) > 0 THEN scores[1] ELSE -1

AITryBody(call, resp, c, n) ==
    IF resp.net = "reject" \/ resp.net = "badjson" THEN Throw(c, n)
    ELSE IF resp.net = "status" THEN FallThrough(c, n)
    ELSE LET n1 == [n EXCEPT !["ai"] = @ + 1]
         IN  IF ~resp.labels.defined \/ ~resp.scores.defined THEN Throw(c, n1)
             ELSE Return([kind |-> "intent",
                          intent |-> IF Len(resp.labels.value) > 0
                                     THEN resp.labels.value[1] ELSE "undefined",
                          confidence |-> topScore(resp.scores.value),
                          source |-> "Hugging Face AI"],
                         c, n1)

AIAfterTryGeneral(v, call, r) ==
    IF r.kind = "next"
    THEN ReturnFallback([kind |-> "intent", intent |-> "general", confidence |-> 70,
                         source |-> "keywords"], r.cache, r.count)
    ELSE r
AIAfterTry(v, call, r) ==
    IF r.kind = "next"
    THEN ReturnFallback(getSimulatedResponse(v, call.message), r.cache, r.count)
    ELSE r

\* a classification whose promise never settles
processQueryPending(v, call, c, n, on) == call

processQuery(v, call, c, n, on) ==
    IF ~on["ai"]
    THEN Finished(call, ReturnFallback(getSimulatedResponse(v, call.message), c, n))
    ELSE Fetching(call)

StartAI(s, message) ==
    /\ FreeSlot(s)
    /\ started < MaxCalls
    /\ started' = started + 1
    /\ LET call == [NewCall("ai", "", "", started + 1, now, cache) EXCEPT
                        !.message = message]
       IN  calls' = [calls EXCEPT ![s] =
                        processQuery(variant, call, cache, apiCallCount, enabled)]
    /\ UNCHANGED <<variant, enabled, now, cache, apiCallCount, currentCity, chat>>

AIResponse(s, resp) ==
    /\ calls[s].pc = "fetch"
    /\ calls[s].api = "ai"
    /\ LET r == AIAfterTry(variant, calls[s],
                    Catch(AITryBody(calls[s], resp, cache, apiCallCount)))
       IN  /\ cache' = r.cache
           /\ apiCallCount' = r.count
           /\ calls' = [calls EXCEPT ![s] = Finished(calls[s], r)]
    /\ UNCHANGED <<variant, enabled, now, started, currentCity, chat>>

-----------------------------------------------------------------------------
(* The clock *)

Tick ==
    /\ \E t \in Instants : t > now /\ now' = t
    /\ UNCHANGED <<variant, enabled, cache, apiCallCount, calls, started, currentCity, chat>>

-----------------------------------------------------------------------------

Init ==
    /\ variant \in {"full", "legacy"}
    /\ enabled \in Configs
    /\ now = 0
    /\ cache = [p \in Caches |-> EmptyMap]
    /\ apiCallCount = [p \in Providers |-> 0]
    /\ calls = [s \in Slots |-> IdleCall]
    /\ started = 0
    /\ currentCity = "tokyo"
    /\ chat = NoChat

Next ==
    \/ Tick
    \/ \E s \in Slots, city \in CallCities : StartWeather(s, city)
    \/ \E s \in Slots, resp \in WeatherResponses : WeatherResponse(s, resp)
    \/ \E s \in Slots, city \in CallCities : StartNews(s, city)
    \/ \E s \in Slots, resp \in NewsResponses : NewsResponse(s, resp)
    \/ \E s \in Slots, city \in CallCities, category \in CallCategories :
           StartPlaces(s, city, category)
    \/ \E s \in Slots, resp \in PlacesResponses : PlacesResponse(s, resp)
    \/ \E s \in Slots, message \in CallMessages : StartAI(s, message)
    \/ \E s \in Slots, resp \in AIResponses : AIResponse(s, resp)

Spec == Init /\ [][Next]_vars

-----------------------------------------------------------------------------
(* PlacesAPI.generateSearchQueries called on its own (full build) *)

PlanCities ==
    {"tokyo", "paris", "mumbai", "istanbul", "newyork", "london", "delhi", "barcelona",
     "veniceXYZ"}
PlanCategories ==
    {"culture", "food", "shopping", "places", "tourist", "clothing", "nightlife"}

\* one call of the static helper, kept with its arguments and its result
Plan(s, city, category) ==
    /\ variant = "full"
    /\ calls' = [calls EXCEPT ![s] =
                    [IdleCall EXCEPT !.pc = "done", !.api = "planner", !.city = city,
                                     !.category = category,
                                     !.plan = generateSearchQueries(city, category)]]
    /\ UNCHANGED <<variant, enabled, now, cache, apiCallCount, started, currentCity, chat>>

PlannerInit == Init /\ variant = "full"

PlannerNext ==
    \E s \in Slots, city \in PlanCities, category \in PlanCategories : Plan(s, city, category)

PlannerSpec == PlannerInit /\ [][PlannerNext]_vars

-----------------------------------------------------------------------------
(* The category handlers of the full build, run while every live request   *)
(* fails or its provider is switched off.  Where a handler only reads the  *)
(* properties of an object, the object is the set of its property names.   *)

\* the options of the city selector
Cities ==
    {"tokyo", "paris", "mumbai", "istanbul", "newyork", "london", "delhi", "barcelona"}

\* the cases of the switch in sendMessage that call a category handler
Intents ==
    {"weather", "food", "culture", "events", "places", "shopping", "clothing", "local"}

\* how a live request fails
Failures == {"reject", "status"}
Failed(f) == [net |-> f]

\* WeatherAPI.getCurrentWeather(city) whose request, if any, fails
failedWeather(city, f, c, n, t, on) ==
    LET call == getCurrentWeather(NewCall("weather", city, "", 0, t, c), c, n, t, on)
    IN  IF call.pc = "done" THEN call.result
        ELSE WeatherAfterTry(call, Catch(WeatherTryBody(call, Failed(f), c, n, t)), t).value

\* NewsAPI.getLocalEvents(city) whose request, if any, fails
failedEvents(city, f, c, n, t, on) ==
    LET call == getLocalEvents(NewCall("news", city, "", 0, t, c), c, n, t, on)
    IN  IF call.pc = "done" THEN call.result.items
        ELSE NewsAfterTry(call, Catch(NewsTryBody(call, Failed(f), c, n, t)), t).value.items

\* PlacesAPI.searchPlaces(city, category) whose every request fails
RECURSIVE searchPlacesRun(_, _, _, _, _)
searchPlacesRun(call, resp, c, n, t) ==
    IF call.pc = "done" THEN call
    ELSE searchPlacesRun(searchPlacesStep(call, resp, c, n, t).call, resp, c, n, t)

failedSearch(city, category, f, c, n, t) ==
    searchPlacesRun(searchPlaces(NewCall("places", city, category, 0, t, c), c, n, t),
                    Failed(f), c, n, t).result.items

(* TraditionalClothingAPI *)

ClothingCacheTimeout == 60 * 60 * 1000

ClothingItem(props, rental) == [props |-> props, rental_available |-> rental]

FullItem ==
    {"name", "type", "description", "occasions", "colors", "price_range",
     "rental_available", "where_to_buy", "styling_tips", "accessories",
     "cultural_significance"}

\* static clothingDatabase = { ... }, by key
clothingDatabase(key) ==
    CASE key = "tokyo" ->
           Defined(<<ClothingItem(FullItem, TRUE), ClothingItem(FullItem, TRUE)>>)
      [] key = "mumbai" -> Defined(<<ClothingItem(FullItem, TRUE)>>)
      [] key = "paris" ->
           Defined(<<ClothingItem(FullItem \ {"styling_tips", "accessories"}, TRUE)>>)
      [] key = "istanbul" -> Defined(<<ClothingItem(FullItem, FALSE)>>)
      [] key = "new_york" -> Defined(<<ClothingItem(FullItem, TRUE)>>)
      [] key = "london" -> Defined(<<ClothingItem(FullItem, FALSE)>>)
      [] key = "delhi" -> Defined(<<ClothingItem(FullItem, TRUE)>>)
      [] key = "barcelona" -> Defined(<<ClothingItem(FullItem, TRUE)>>)
      [] OTHER -> Undefined

\* contexts[city] || { ... }: the same four properties either way
getCulturalContext(city) ==
    {"best_seasons", "cultural_etiquette", "photo_opportunities", "learning_opportunities"}

getGenericClothingInfo(city) ==
    [props |-> {"traditional", "shopping_areas", "cultural_context"},
     traditional |->
         <<ClothingItem({"name", "description", "where_to_buy", "recommendation"}, FALSE)>>,
     styling_services |-> <<>>,
     rental_options |-> <<>>,
     cultural_context |-> {"recommendation"}]

\* places.map(place => ({ name, address, type: 'styling_service', source }))
findStylingServices(places) ==
    [i \in 1..Len(places) |->
        [name |-> places[i].name, address |-> places[i].address,
         type |-> "styling_service", source |-> "OpenStreetMap"]]

isRental(item) == item.rental_available

\* getTraditionalClothing(city) with no preferences; places is what
\* PlacesAPI.searchPlaces(city, 'clothing') gives findStylingServices
getTraditionalClothing(city, places, c, t) ==
    LET cacheKeyOf == <<city, "{}">>
        hit == cacheGet(c, "clothing", cacheKeyOf)
        cityClothing == clothingDatabase(city)
        result == [props |-> {"traditional", "shopping_areas", "styling_services",
                              "rental_options", "cultural_context"},
                   traditional |-> cityClothing.value,
                   styling_services |-> findStylingServices(places),
                   rental_options |-> SelectSeq(cityClothing.value, isRental),
                   cultural_context |-> getCulturalContext(city)]
    IN  IF IsFresh(hit, t, ClothingCacheTimeout)
        THEN [data |-> hit.data, cache |-> c]
        ELSE IF ~cityClothing.defined
        THEN [data |-> getGenericClothingInfo(city), cache |-> c]
        ELSE [data |-> result, cache |-> cacheSet(c, "clothing", cacheKeyOf, result, t)]

(* LocalRecommendationsAPI *)

LocalCacheTimeout == 30 * 60 * 1000

\* a list of n objects that all have the properties props
Section(n, props) == [n |-> n, props |-> props]

localFoodProps == {"name", "description", "where", "price", "mustTry"}
restaurantProps == {"name", "cuisine", "area", "specialty", "price", "reservation"}
localClothingProps == {"type", "description", "occasions", "where", "price"}
famousPlaceProps == {"name", "type", "area", "highlights", "bestTime", "entry"}
culturalEventProps == {"name", "period", "description", "locations", "significance"}
shoppingMarketProps == {"name", "type", "area", "specialties", "hours", "bargaining"}

\* static demoData = { ... }; every key is lower case already
demoData(city) ==
    IF city \in {"tokyo", "mumbai", "delhi", "paris", "newyork"}
    THEN Defined([localFood |-> Section(6, localFoodProps),
                  restaurants |-> Section(5, restaurantProps),
                  traditionalClothing |-> Section(4, localClothingProps),
                  famousPlaces |-> Section(6, famousPlaceProps),
                  culturalEvents |-> Section(4, culturalEventProps),
                  shoppingMarkets |-> Section(5, shoppingMarketProps)])
    ELSE Undefined

getLocalFood(city) ==
    IF demoData(city).defined THEN demoData(city).value.localFood
    ELSE Section(1, localFoodProps)
getTopRestaurants(city) ==
    IF demoData(city).defined THEN demoData(city).value.restaurants
    ELSE Section(1, restaurantProps)
getLocalClothing(city) ==
    IF demoData(city).defined THEN demoData(city).value.traditionalClothing
    ELSE Section(1, localClothingProps)
getFamousPlaces(city) ==
    IF demoData(city).defined THEN demoData(city).value.famousPlaces
    ELSE Section(1, famousPlaceProps)
getCulturalEvents(city) ==
    IF demoData(city).defined THEN demoData(city).value.culturalEvents
    ELSE Section(1, culturalEventProps)
getShoppingMarkets(city) ==
    IF demoData(city).defined THEN demoData(city).value.shoppingMarkets
    ELSE Section(1, shoppingMarketProps)

\* tips[city] || [ ... ]: six strings either way
getLocalTips(city) == Section(6, {})
\* budget[city] || { ... }: the same four properties either way
getBudgetRecommendations(city) == {"accommodation", "food", "transport", "activities"}

getBasicRecommendations(city) ==
    [weather |-> {"temperature", "condition"},
     local_food |-> getLocalFood(city),
     restaurants |-> getTopRestaurants(city),
     traditional_clothing |-> getLocalClothing(city),
     famous_places |-> getFamousPlaces(city),
     cultural_events |-> getCulturalEvents(city),
     shopping_markets |-> getShoppingMarkets(city),
     events |-> <<>>,
     local_tips |-> getLocalTips(city),
     budget_options |-> getBudgetRecommendations(city),
     cultural_insights |-> TRUE]

\* weather and events are what the two awaited provider calls returned
getLocalRecommendations(city, weather, events, c, t) ==
    LET cacheKeyOf == <<city>>
        hit == cacheGet(c, "local_rec", cacheKeyOf)
        cityRecs == demoData(city)
        recommendations ==
            [weather |-> DOMAIN weather,
             local_food |-> cityRecs.value.localFood,
             restaurants |-> cityRecs.value.restaurants,
             traditional_clothing |-> cityRecs.value.traditionalClothing,
             famous_places |-> cityRecs.value.famousPlaces,
             cultural_events |-> cityRecs.value.culturalEvents,
             shopping_markets |-> cityRecs.value.shoppingMarkets,
             events |-> events,
             local_tips |-> getLocalTips(city),
             budget_options |-> getBudgetRecommendations(city),
             cultural_insights |-> TRUE]
    IN  IF IsFresh(hit, t, LocalCacheTimeout)
        THEN [data |-> hit.data, cache |-> c]
        ELSE IF ~cityRecs.defined
        THEN [data |-> getBasicRecommendations(city), cache |-> c]
        ELSE [data |-> recommendations,
              cache |-> cacheSet(c, "local_rec", cacheKeyOf, recommendations, t)]

(* The handlers.  An outcome is what one run of a handler appended to      *)
(* #messages: the category labels of its addBotMessage calls, the number   *)
(* of other elements, the properties it printed although the object lacks  *)
(* them, whether its own catch block ran, and whether it said that nothing *)
(* was found.                                                              *)

Outcome(handler, city, labels, cards, missing, caught, noResults) ==
    [handler |-> handler, city |-> city, labels |-> labels, cards |-> cards,
     missing |-> missing, caught |-> caught, noResults |-> noResults]

If(cond, label) == IF cond THEN <<label>> ELSE <<>>

\* the properties read without a guard, of each object in objs
Unreadable(reads, objs) == UNION {reads \ DOMAIN objs[i] : i \in 1..Len(objs)}

weatherReads ==
    {"temperature", "condition", "humidity", "windSpeed", "pressure", "source", "timestamp"}

renderWeather(city, weather) ==
    Outcome("weather", city, <<"Live Weather">>, 1, weatherReads \ DOMAIN weather,
            FALSE, FALSE)

renderEvents(city, events) ==
    Outcome("events", city, <<"Local Events">>, Len(events),
            Unreadable({"title", "description", "source"}, events), FALSE, FALSE)

\* handleFoodQuery, handleCultureQuery, handlePlacesQuery, handleShoppingQuery
\* (tip: the handler closes the list with a tip element)
renderPlaces(handler, city, title, suggestion, tip, places) ==
    IF Len(places) > 0
    THEN Outcome(handler, city, <<title>>, Len(places) + (IF tip THEN 1 ELSE 0),
                 Unreadable({"name", "address", "type", "source"}, places), FALSE, FALSE)
    ELSE Outcome(handler, city, <<title, suggestion>>, 0, {}, FALSE, TRUE)

\* the try block of handleEnhancedClothingQuery and its catch
renderClothing(city, clothingData) ==
    LET items == clothingData.traditional
        context == clothingData.cultural_context
        renders(i) == {"type", "occasions", "where_to_buy"} \subseteq items[i].props
        throws ==
            \/ \E i \in 1..Len(items) : ~renders(i)
            \/ "rental_options" \notin clothingData.props
        rendered == {i \in 1..Len(items) : \A j \in 1..i : renders(j)}
        itemReads == {"name", "type", "description", "occasions", "price_range",
                      "where_to_buy", "cultural_significance"}
        contextReads == {"best_seasons", "cultural_etiquette", "photo_opportunities",
                         "learning_opportunities"}
    IN  IF throws
        THEN Outcome("clothing", city,
                     <<"Traditional Clothing Expert">>
                         \o If(Len(items) > 0, "Traditional Wear")
                         \o If(Len(items) = 0, "Info") \o <<"Basic Info">>,
                     Cardinality(rendered),
                     UNION {itemReads \ items[i].props : i \in rendered},
                     TRUE, FALSE)
        ELSE Outcome("clothing", city,
                     <<"Traditional Clothing Expert">>
                         \o If(Len(items) > 0, "Traditional Wear")
                         \o If(Len(items) = 0, "Info")
                         \o If(Len(clothingData.rental_options) > 0, "Budget Tip"),
                     Len(items) + 1,
                     UNION {itemReads \ items[i].props : i \in 1..Len(items)}
                         \cup (contextReads \ context),
                     FALSE, Len(items) = 0)

sectionReads(name) ==
    CASE name = "local_food" -> {"name", "description", "where"}
      [] name = "restaurants" -> {"name", "cuisine", "area", "specialty"}
      [] name = "traditional_clothing" -> {"type", "description", "occasions", "where"}
      [] name = "famous_places" -> {"name", "type", "area", "highlights"}
      [] name = "cultural_events" -> {"name", "period", "description", "locations"}
      [] name = "shopping_markets" -> {"name", "type", "area", "specialties"}

sectionLabel(name) ==
    CASE name = "local_food" -> "Local Cuisine"
      [] name = "restaurants" -> "Top Restaurants"
      [] name = "traditional_clothing" -> "Traditional Clothing"
      [] name = "famous_places" -> "Must-Visit Places"
      [] name = "cultural_events" -> "Cultural Events"
      [] name = "shopping_markets" -> "Shopping Markets"

Sections ==
    <<"local_food", "restaurants", "traditional_clothing", "famous_places",
      "cultural_events", "shopping_markets">>

RECURSIVE sectionLabels(_, _)
sectionLabels(localData, i) ==
    IF i > Len(Sections) THEN <<>>
    ELSE If(localData[Sections[i]].n > 0, sectionLabel(Sections[i]))
             \o sectionLabels(localData, i + 1)

RECURSIVE sectionCards(_, _)
sectionCards(localData, i) ==
    IF i > Len(Sections) THEN 0
    ELSE localData[Sections[i]].n + sectionCards(localData, i + 1)

\* the try block of handleLocalRecommendations; nothing in it can throw
renderLocal(city, localData) ==
    Outcome("local", city,
            <<"Local Expert">> \o sectionLabels(localData, 1)
                \o If(localData.local_tips.n > 0, "Local Insights"),
            sectionCards(localData, 1) + 5,
            UNION {IF localData[Sections[i]].n > 0
                   THEN sectionReads(Sections[i]) \ localData[Sections[i]].props
                   ELSE {} : i \in 1..Len(Sections)}
                \cup ({"temperature", "condition"} \ localData.weather)
                \cup ({"accommodation", "food", "transport", "activities"}
                          \ localData.budget_options),
            FALSE, FALSE)

\* citySelect's change listener: currentCity = this.value; updateCityInfo()
selectCity(city) ==
    /\ currentCity' = city
    /\ chat' = Outcome("updateCityInfo", city, <<"City Changed">>, 0, {}, FALSE, FALSE)
    /\ UNCHANGED <<variant, enabled, now, cache, apiCallCount, calls, started>>

\* one more handler run
Run == started < MaxCalls /\ started' = started + 1

handleWeatherQuery(f) ==
    /\ Run
    /\ chat' = renderWeather(currentCity,
                   failedWeather(currentCity, f, cache, apiCallCount, now, enabled))
    /\ UNCHANGED <<variant, enabled, now, cache, apiCallCount, calls, currentCity>>

handleEventsQuery(f) ==
    /\ Run
    /\ chat' = renderEvents(currentCity,
                   failedEvents(currentCity, f, cache, apiCallCount, now, enabled))
    /\ UNCHANGED <<variant, enabled, now, cache, apiCallCount, calls, currentCity>>

handleFoodQuery(f) ==
    /\ Run
    /\ chat' = renderPlaces("food", currentCity, "Local Cuisine", "Food Suggestion", TRUE,
                   failedSearch(currentCity, "food", f, cache, apiCallCount, now))
    /\ UNCHANGED <<variant, enabled, now, cache, apiCallCount, calls, currentCity>>

handleCultureQuery(f) ==
    /\ Run
    /\ chat' = renderPlaces("culture", currentCity, "Cultural Sites", "Suggestion", FALSE,
                   failedSearch(currentCity, "culture", f, cache, apiCallCount, now))
    /\ UNCHANGED <<variant, enabled, now, cache, apiCallCount, calls, currentCity>>

handlePlacesQuery(f) ==
    /\ Run
    /\ chat' = renderPlaces("places", currentCity, "Tourist Attractions", "Suggestion", TRUE,
                   failedSearch(currentCity, "tourist", f, cache, apiCallCount, now))
    /\ UNCHANGED <<variant, enabled, now, cache, apiCallCount, calls, currentCity>>

handleShoppingQuery(f) ==
    /\ Run
    /\ chat' = renderPlaces("shopping", currentCity, "Shopping", "Suggestion", FALSE,
                   failedSearch(currentCity, "shopping", f, cache, apiCallCount, now))
    /\ UNCHANGED <<variant, enabled, now, cache, apiCallCount, calls, currentCity>>

handleEnhancedClothingQuery(f) ==
    /\ Run
    /\ LET got == getTraditionalClothing(currentCity,
                      failedSearch(currentCity, "clothing", f, cache, apiCallCount, now),
                      cache, now)
       IN  /\ cache' = got.cache
           /\ chat' = renderClothing(currentCity, got.data)
    /\ UNCHANGED <<variant, enabled, now, apiCallCount, calls, currentCity>>

handleLocalRecommendations(f) ==
    /\ Run
    /\ LET got == getLocalRecommendations(currentCity,
                      failedWeather(currentCity, f, cache, apiCallCount, now, enabled),
                      failedEvents(currentCity, f, cache, apiCallCount, now, enabled),
                      cache, now)
       IN  /\ cache' = got.cache
           /\ chat' = renderLocal(currentCity, got.data)
    /\ UNCHANGED <<variant, enabled, now, apiCallCount, calls, currentCity>>

HandlerInit == Init /\ variant = "full"

HandlerNext ==
    \/ Tick
    \/ \E city \in Cities : selectCity(city)
    \/ \E f \in Failures : handleWeatherQuery(f)
    \/ \E f \in Failures : handleEventsQuery(f)
    \/ \E f \in Failures : handleFoodQuery(f)
    \/ \E f \in Failures : handleCultureQuery(f)
    \/ \E f \in Failures : handlePlacesQuery(f)
    \/ \E f \in Failures : handleShoppingQuery(f)
    \/ \E f \in Failures : handleEnhancedClothingQuery(f)
    \/ \E f \in Failures : handleLocalRecommendations(f)

HandlerSpec == HandlerInit /\ [][HandlerNext]_vars

-----------------------------------------------------------------------------
(* Properties of the provider clients *)

CallKey(call) == cacheKey(call.api, call.city, call.category)
Begun(call) == call.pc # "idle"
Done(call) == call.pc = "done"

\* C1: a call to the weather, places or news client that finds a stored entry
\* for its key with now - timestamp < cacheTimeout issues no network request
\* and returns exactly the stored value.
CacheHitWithinTTL ==
    \A s \in Slots :
        (Begun(calls[s]) /\ calls[s].api \in Cached /\ calls[s].preFresh) =>
            /\ Done(calls[s])
            /\ ~calls[s].threw
            /\ calls[s].reqs = 0
            /\ calls[s].result = calls[s].preData

\* a finished call that was served a value stored by an earlier call
CacheHitServed ==
    \E s \in Slots :
        /\ Done(calls[s]) /\ calls[s].api = "places" /\ calls[s].preFresh
        /\ calls[s].reqs = 0
        /\ calls[s].result = calls[s].preData
        /\ calls[s].result.oid # calls[s].id
        /\ cacheGet(cache, "places", CallKey(calls[s])).timestamp < now

\* C2: for an enabled provider, a call whose key has no entry, or an entry with
\* now - timestamp >= cacheTimeout, issues a live request, and what it returns
\* is a value made by this call, never the stored one, also when the live
\* request fails.
TTLExpiry ==
    \A s \in Slots :
        (Begun(calls[s]) /\ calls[s].api \in Cached /\ enabled[calls[s].api]
            /\ ~calls[s].preFresh) =>
            /\ calls[s].reqs >= 1
            /\ Done(calls[s]) =>
                   /\ calls[s].via # "cache"
                   /\ calls[s].result.kind # "none"
                   /\ calls[s].result.oid = calls[s].id

\* a weather call that found an entry exactly cacheTimeout old, asked the
\* provider, failed, and returned simulated weather
ExpiredThenFailed ==
    \E s \in Slots :
        /\ Done(calls[s]) /\ calls[s].api = "weather" /\ ~calls[s].preFresh
        /\ calls[s].preData.kind = "weather"
        /\ cacheGet(cache, "weather", CallKey(calls[s])).present
        /\ cacheGet(cache, "weather", CallKey(calls[s])).timestamp = 0
        /\ now = WeatherCacheTimeout
        /\ calls[s].reqs = 1
        /\ calls[s].result.source = "Demo Data (Add API key for live)"

\* every stored entry holds what a successful live response produced
CacheLive ==
    /\ \A k \in DOMAIN cache["weather"] :
           cacheGet(cache, "weather", k).present => cacheGet(cache, "weather", k).data.isRealTime
    /\ \A k \in DOMAIN cache["places"] :
           cacheGet(cache, "places", k).present =>
               \A i \in 1..Len(cacheGet(cache, "places", k).data.items) :
                   cacheGet(cache, "places", k).data.items[i].source
                       \in {"OpenStreetMap (LIVE)", "OpenStreetMap"}
    /\ \A k \in DOMAIN cache["news"] :
           cacheGet(cache, "news", k).present =>
               \A i \in 1..Len(cacheGet(cache, "news", k).data.items) :
                   cacheGet(cache, "news", k).data.items[i].source # "Local Events (Demo)"

\* C3: a weather, places or news call that returns fallback data leaves its
\* provider's cache unchanged, and every stored entry was produced by a
\* successful live response.
FallbackNeverCached ==
    /\ []CacheLive
    /\ [][\A s \in Slots :
            (/\ ~Done(calls[s]) /\ Done(calls'[s])
             /\ calls'[s].api \in Cached
             /\ calls'[s].via = "fallback") => cache' = cache]_vars

\* a places call whose queries all failed returned demo places while the entry
\* of an earlier live success, by now expired, stayed as it was
FallbackLeftCacheAlone ==
    \E s \in Slots :
        /\ Done(calls[s]) /\ calls[s].api = "places" /\ calls[s].via = "fallback"
        /\ calls[s].reqs >= 1
        /\ calls[s].preData.kind = "places"
        /\ cacheGet(cache, "places", CallKey(calls[s])).present
        /\ cacheGet(cache, "places", CallKey(calls[s])).data = calls[s].preData
        /\ cacheGet(cache, "places", CallKey(calls[s])).data # calls[s].result

\* C4: whatever the live request does, the weather, places, news and
\* classifier calls return a value and never throw to their caller.
NeverRaises ==
    \A s \in Slots :
        /\ ~calls[s].threw
        /\ Done(calls[s]) => calls[s].result.kind # "none"

\* the only call so far asked the classifier, counted the answer, found no
\* labels in it, and returned the keyword classification
ThrowContained ==
    \E s \in Slots :
        /\ started = 1
        /\ Done(calls[s]) /\ calls[s].api = "ai" /\ calls[s].reqs = 1
        /\ apiCallCount["ai"] = 1
        /\ calls[s].result.source = "keywords"

\* C5: a successful live response with no usable item is not returned and not
\* stored: the places and news clients return fallback data instead.
EmptyLiveResultIsFailure ==
    /\ \A s \in Slots :
           (Done(calls[s]) /\ calls[s].api \in {"places", "news"}) =>
               (calls[s].via = "live" => Len(calls[s].result.items) > 0)
    /\ \A p \in {"places", "news"} : \A k \in DOMAIN cache[p] :
           cacheGet(cache, p, k).present => Len(cacheGet(cache, p, k).data.items) > 0

\* C6: a provider whose enabled flag is false issues no request and returns
\* fallback data.
DisabledProviderNoRequest ==
    \A s \in Slots :
        (Begun(calls[s]) /\ ~enabled[calls[s].api]) =>
            /\ calls[s].reqs = 0
            /\ Done(calls[s])
            /\ calls[s].via = "fallback"

\* C7: a weather, news or classifier call issues at most one request; a places
\* call at most one per planned query, hence at most five; a call served from
\* the cache issues none.
RequestBudget ==
    \A s \in Slots :
        /\ calls[s].api \in {"weather", "news", "ai"} => calls[s].reqs <= 1
        /\ calls[s].api = "places" =>
               /\ calls[s].reqs <= 5
               /\ variant = "full" => calls[s].reqs <= Len(calls[s].plan)
               /\ variant = "legacy" => calls[s].reqs <= 1
        /\ calls[s].via = "cache" => calls[s].reqs = 0

\* a places call that issued one request for each of its five planned queries
BudgetSpent ==
    \E s \in Slots :
        /\ variant = "full"
        /\ Done(calls[s]) /\ calls[s].api = "places"
        /\ Len(calls[s].plan) = 5
        /\ calls[s].reqs = 5

\* C9: when the live places path produces nothing, searchPlaces returns a
\* non-empty list whose entries are all marked as demo data; for tokyo/culture
\* it is Senso-ji Temple, Meiji Shrine, Tokyo National Museum, in that order.
PlacesFallbackContent ==
    \A s \in Slots :
        (Done(calls[s]) /\ calls[s].api = "places" /\ calls[s].via = "fallback") =>
            LET items == calls[s].result.items
            IN  /\ Len(items) > 0
                /\ \A i \in 1..Len(items) : items[i].source = "Demo Data (API failed)"
                /\ (calls[s].city = "tokyo" /\ calls[s].category = "culture") =>
                       [i \in 1..Len(items) |-> items[i].name]
                           = <<"Senso-ji Temple", "Meiji Shrine", "Tokyo National Museum">>

-----------------------------------------------------------------------------
(* Properties of the query planner *)

\* C10: generateSearchQueries returns the curated list of the pair when there
\* is one, otherwise the category's generic templates (four for culture, food,
\* shopping, places and tourist, the two closing queries for any other
\* category), followed by "{category} in {city}" and "top {category} {city}",
\* cut to the first five; (veniceXYZ, food) gives the five queries listed.
PlannerComposition ==
    \A s \in Slots :
        calls[s].api = "planner" =>
            LET city == calls[s].city
                category == calls[s].category
                closing == <<category \o " in " \o city, "top " \o category \o " " \o city>>
                curated == cityData(city, category)
                generic == genericQueries(city, category)
                head == IF curated.defined THEN curated.value ELSE generic
            IN  /\ ~calls[s].threw
                /\ calls[s].plan = Take(head \o closing, 5)
                /\ Len(calls[s].plan) <= 5
                /\ IF category \in {"culture", "food", "shopping", "places", "tourist"}
                   THEN Len(generic) = 4
                   ELSE generic = closing
                /\ (city = "veniceXYZ" /\ category = "food") =>
                       calls[s].plan = <<"restaurants veniceXYZ", "food markets veniceXYZ",
                                         "local cuisine veniceXYZ",
                                         "best places to eat veniceXYZ", "food in veniceXYZ">>

\* the planner has answered for an unknown city and for a curated pair
PlannedUnknownAndCurated ==
    /\ calls[1].api = "planner" /\ calls[1].city = "veniceXYZ" /\ calls[1].category = "food"
    /\ calls[1].plan[5] = "food in veniceXYZ"
    /\ calls[2].api = "planner" /\ calls[2].city = "tokyo" /\ calls[2].category = "culture"
    /\ calls[2].plan[5] = "culture in tokyo"

-----------------------------------------------------------------------------
(* Properties of the category handlers *)

\* C8: with every live call disabled or failing, each category handler, in each
\* city of the selector, either shows a non-empty result all of whose
\* properties it reads are present, or says that nothing was found; none ends
\* in its own error branch.
FallbackTotality ==
    chat.handler \in Intents =>
        /\ ~chat.caught
        /\ \/ chat.noResults
           \/ chat.cards > 0 /\ chat.missing = {}

-----------------------------------------------------------------------------
(* Further properties of the query planner *)

\* C11: the list returned by generateSearchQueries holds no query string
\* twice, for every city and category, the categories without a curated entry
\* and without a template of their own included.
PlanHasNoDuplicates ==
    \A s \in Slots :
        calls[s].api = "planner" =>
            \A i, j \in 1..Len(calls[s].plan) :
                i # j => calls[s].plan[i] # calls[s].plan[j]

-----------------------------------------------------------------------------
(* PlacesAPI.removeDuplicates called on its own (full build) *)

MaxPlaces == 3

\* a place as the map callback of searchPlaces builds it
Place(name, lat, lon, imp) ==
    [name |-> name, address |-> <<>>, lat |-> lat, lon |-> lon, type |-> "attraction",
     category |-> "tourism", importance |-> imp, source |-> "OpenStreetMap (LIVE)"]
Named(str) == [kind |-> "string", s |-> str]

PlaceRedFort == Place(Named("Red Fort"), 286562, 772410, 80)
PlaceRedFortLower == Place(Named("red fort"), 286561, 772411, 70)
PlaceRedFortGate == Place(Named("Red Fort"), 286570, 772410, 60)
PlaceIndiaGate == Place(Named("India Gate"), 286129, 772295, 80)
PlaceNumericName == Place([kind |-> "number", s |-> ""], 286129, 772295, 50)

PlacePool ==
    {PlaceRedFort, PlaceRedFortLower, PlaceRedFortGate, PlaceIndiaGate, PlaceNumericName}
PlaceLists == UNION {[1..k -> PlacePool] : k \in 0..MaxPlaces}

\* removeDuplicates(places) with its outcome: the list, or the TypeError
removeDuplicatesCall(call, places) ==
    IF removeDuplicatesThrows(places)
    THEN [call EXCEPT !.pc = "done", !.api = "dedupe", !.allPlaces = places,
                      !.result = NoResult, !.threw = TRUE, !.qi = @ + 1]
    ELSE [call EXCEPT !.pc = "done", !.api = "dedupe", !.allPlaces = places,
                      !.result = [kind |-> "places", oid |-> 0,
                                  items |-> removeDuplicates(places)],
                      !.threw = FALSE, !.qi = @ + 1]

\* removeDuplicates(L)
Dedupe(s, places) ==
    /\ variant = "full"
    /\ calls' = [calls EXCEPT ![s] = removeDuplicatesCall(IdleCall, places)]
    /\ UNCHANGED <<variant, enabled, now, cache, apiCallCount, started, currentCity, chat>>

\* removeDuplicates(removeDuplicates(L)): qi counts the passes, preData keeps L
DedupeAgain(s) ==
    /\ calls[s].api = "dedupe" /\ ~calls[s].threw /\ calls[s].qi = 1
    /\ calls' = [calls EXCEPT ![s] =
                    removeDuplicatesCall(
                        [calls[s] EXCEPT !.preData = [kind |-> "places", oid |-> 0,
                                                      items |-> calls[s].allPlaces]],
                        calls[s].result.items)]
    /\ UNCHANGED <<variant, enabled, now, cache, apiCallCount, started, currentCity, chat>>

DedupeInit == Init /\ variant = "full" /\ enabled = [p \in Providers |-> TRUE]

DedupeNext ==
    \/ \E places \in PlaceLists : Dedupe(1, places)
    \/ DedupeAgain(1)

DedupeSpec == DedupeInit /\ [][DedupeNext]_vars

-----------------------------------------------------------------------------
(* Properties of removeDuplicates *)

\* the key as stated: lowercase(name), round(lat * 1000), round(lon * 1000)
StatedKey(place) ==
    <<toLowerCase(place.name.s), (place.lat + 5) \div 10, (place.lon + 5) \div 10>>

\* C12: removeDuplicates keeps, in input order, exactly the first hit of each
\* key and drops every later hit with an equal key; "Red Fort" at
\* (28.6562, 77.2410) followed by "red fort" at (28.6561, 77.2411) leaves the
\* first entry alone.
DedupeKeepsFirstOfEachKey ==
    \A s \in Slots :
        (calls[s].api = "dedupe" /\ ~calls[s].threw) =>
            LET L == calls[s].allPlaces
                out == calls[s].result.items
                firsts == {i \in 1..Len(L) :
                              \A j \in 1..(i - 1) : StatedKey(L[j]) # StatedKey(L[i])}
                rank(i) == Cardinality({j \in firsts : j <= i})
            IN  /\ Len(out) = Cardinality(firsts)
                /\ \A i \in firsts : out[rank(i)] = L[i]
                /\ L = <<PlaceRedFort, PlaceRedFortLower>> => out = <<PlaceRedFort>>

\* the two Red Fort hits went in and the first came out
RedFortCollapsed ==
    /\ calls[1].api = "dedupe" /\ calls[1].qi = 1
    /\ calls[1].allPlaces = <<PlaceRedFort, PlaceRedFortLower>>
    /\ calls[1].result.items = <<PlaceRedFort>>

\* C13: removeDuplicates(removeDuplicates(L)) equals removeDuplicates(L),
\* element for element and in the same order.
DedupeIdempotent ==
    \A s \in Slots :
        (calls[s].api = "dedupe" /\ calls[s].qi = 2) =>
            /\ ~calls[s].threw
            /\ calls[s].result.items = calls[s].allPlaces

\* a second pass has run over a list the first pass had shortened
SecondPassRan ==
    /\ calls[1].api = "dedupe" /\ calls[1].qi = 2
    /\ calls[1].preData.items = <<PlaceRedFort, PlaceRedFortLower, PlaceIndiaGate>>
    /\ calls[1].allPlaces = <<PlaceRedFort, PlaceIndiaGate>>
    /\ calls[1].result.items = <<PlaceRedFort, PlaceIndiaGate>>

-----------------------------------------------------------------------------
(* PlacesAPI.searchPlaces from the end of its query loop (full build):     *)
(* the hits gathered in allPlaces are ranked and returned, or the fallback *)
(* is.                                                                     *)

MaxGathered == 6

PlaceQutubMinar == Place(Named("Qutub Minar"), 285245, 771855, 0)
PlaceLotusTemple == Place(Named("Lotus Temple"), 285535, 772588, 60)
PlaceHumayunTomb == Place(Named("Humayun Tomb"), 285933, 772507, 90)

GatheredPool ==
    {PlaceRedFort, PlaceRedFortLower, PlaceRedFortGate, PlaceIndiaGate, PlaceQutubMinar,
     PlaceLotusTemple, PlaceHumayunTomb}
\* the lists of up to MaxGathered hits without a hit twice (a hit returned by two
\* queries is the case of removeDuplicates above; hits that differ and share a
\* key are kept here)
GatheredLists ==
    UNION {{f \in [1..k -> GatheredPool] : \A i, j \in 1..k : f[i] = f[j] => i = j} :
              k \in 0..MaxGathered}

\* searchPlaces("delhi", "culture") after its last query has settled, with
\* allPlaces = places; the finished call keeps allPlaces as history
Rank(s, places) ==
    /\ variant = "full"
    /\ calls[s].pc = "idle"
    /\ LET call == [NewCall("places", "delhi", "culture", 1, now, cache) EXCEPT
                        !.plan = generateSearchQueries("delhi", "culture"),
                        !.reqs = 5, !.qi = 5]
           r == placesAfterTry(call,
                               Catch(placesRank(call, places, cache, apiCallCount, now)),
                               now)
       IN  /\ calls' = [calls EXCEPT ![s] = [Finished(call, r) EXCEPT !.allPlaces = places]]
           /\ cache' = r.cache
           /\ apiCallCount' = r.count
    /\ UNCHANGED <<variant, enabled, now, started, currentCity, chat>>

RankInit == Init /\ variant = "full" /\ enabled = [p \in Providers |-> TRUE]

\* a later run over the same gathered hits, whatever the clock, the cache and
\* the counters have become
RankAgain(s) ==
    /\ calls[1].pc = "done"
    /\ s # 1
    /\ Rank(s, calls[1].allPlaces)

RankNext ==
    \/ calls[1].pc = "idle" /\ \E places \in GatheredLists : Rank(1, places)
    \/ RankAgain(2)
    \/ Tick

RankSpec == RankInit /\ [][RankNext]_vars

-----------------------------------------------------------------------------
(* Properties of the ranking *)

\* the positions of allPlaces holding the first hit of their key
FirstHits(L) ==
    {i \in 1..Len(L) : \A j \in 1..(i - 1) : StatedKey(L[j]) # StatedKey(L[i])}

\* the position in allPlaces of a returned place
Arrival(L, place) == CHOOSE i \in FirstHits(L) : L[i] = place

Ranked(call) == call.api = "places" /\ Done(call) /\ call.via = "live"

\* C14: on the live path searchPlaces returns the deduplicated hits sorted by
\* non-increasing importance and cut to the first five: between one and five
\* entries, each the first hit of its key, none twice, and no omitted hit more
\* important than a returned one.
RankedByImportance ==
    \A s \in Slots :
        Ranked(calls[s]) =>
            LET L == calls[s].allPlaces
                out == calls[s].result.items
                firsts == FirstHits(L)
            IN  /\ Len(out) \in 1..5
                /\ Len(out) = IF Cardinality(firsts) < 5 THEN Cardinality(firsts) ELSE 5
                /\ \A k \in 1..(Len(out) - 1) : out[k].importance >= out[k + 1].importance
                /\ \A k \in 1..Len(out) : \E i \in firsts : out[k] = L[i]
                /\ \A k1, k2 \in 1..Len(out) : out[k1] = out[k2] => k1 = k2
                /\ \A i \in firsts :
                       (\A k \in 1..Len(out) : out[k] # L[i]) =>
                           \A k \in 1..Len(out) : out[k].importance >= L[i].importance

\* six hits with six keys were gathered and the least important was cut
LeastImportantCut ==
    /\ Ranked(calls[1])
    /\ calls[1].allPlaces = <<PlaceQutubMinar, PlaceRedFort, PlaceLotusTemple,
                              PlaceIndiaGate, PlaceHumayunTomb, PlaceRedFortGate>>
    /\ calls[1].result.items = <<PlaceHumayunTomb, PlaceRedFort, PlaceIndiaGate,
                                 PlaceLotusTemple, PlaceRedFortGate>>

-----------------------------------------------------------------------------
(* PlacesAPI.searchPlaces from the settling of its last query (full build): *)
(* the raw hits of the response are filtered, mapped, ranked and returned. *)

MaxRaw == 3

\* display_name ", Tokyo": truthy, with an empty first part
HitEmptyFirstPart ==
    RawHit(<<"", " Tokyo">>, Coord(356812), Coord(1397671), 45, "station", "railway", NoName)
\* display_name " , Tokyo": the first part is blank
HitBlankFirstPart ==
    RawHit(<<" ", " Tokyo">>, Coord(356895), Coord(1396917), 35, "", "", NoName)
HitNamed ==
    RawHit(<<"Tokyo Tawa", " Minato", " Tokyo">>, Coord(356586), Coord(1397454), 50,
           "tower", "man_made", [kind |-> "string", s |-> "Tokyo Tower"])

RawPool ==
    {HitSensoji, HitMeiji, HitNoLat, HitNoDisplayName, HitNumericName, HitEmptyFirstPart,
     HitBlankFirstPart, HitNamed}
RawLists == UNION {[1..k -> RawPool] : k \in 0..MaxRaw}

\* searchPlaces("tokyo", "culture") when its last query settles with data, the
\* earlier queries having brought nothing; the finished call keeps data in
\* preData as history
Settle(s, data) ==
    /\ variant = "full"
    /\ calls[s].pc = "idle"
    /\ LET plan == generateSearchQueries("tokyo", "culture")
           call == [NewCall("places", "tokyo", "culture", 1, now, cache) EXCEPT
                       !.pc = "fetch", !.plan = plan, !.reqs = Len(plan), !.qi = Len(plan)]
           r == searchPlacesStep(call, [net |-> "ok", data |-> data], cache,
                                 apiCallCount, now)
       IN  /\ calls' = [calls EXCEPT ![s] =
                           [r.call EXCEPT !.preData = [kind |-> "raw", items |-> data]]]
           /\ cache' = r.cache
           /\ apiCallCount' = r.count
    /\ UNCHANGED <<variant, enabled, now, started, currentCity, chat>>

HitsInit == Init /\ variant = "full" /\ enabled = [p \in Providers |-> TRUE]

HitsNext == calls[1].pc = "idle" /\ \E data \in RawLists : Settle(1, data)

HitsSpec == HitsInit /\ [][HitsNext]_vars

-----------------------------------------------------------------------------
(* Properties of the places returned *)

\* C16: every place returned by the live path has a non-empty name and comes
\* from a raw hit that has a display_name, a lat and a lon: a hit missing one
\* of them never reaches the ranked output.
PlaceResultInvariant ==
    \A s \in Slots :
        (Ranked(calls[s]) /\ calls[s].preData.kind = "raw") =>
            LET out == calls[s].result.items
                data == calls[s].preData.items
            IN  \A k \in 1..Len(out) :
                    /\ out[k].name.kind = "string"
                    /\ out[k].name.s # ""
                    /\ \E i \in 1..Len(data) :
                           /\ data[i].display_name # <<>>
                           /\ data[i].lat.given /\ data[i].lon.given
                           /\ out[k].address = data[i].display_name
                           /\ out[k].lat = data[i].lat.e4
                           /\ out[k].lon = data[i].lon.e4

-----------------------------------------------------------------------------
(* AIAPI.getSimulatedResponse called on its own (both builds) *)

Messages ==
    {"Find the best restaurants and local food places",
     "Find top tourist attractions and landmarks",
     "Get current weather conditions",
     "What cultural events and activities are happening",
     "Find museums temples and cultural sites",
     "Find the best shopping districts and markets",
     "Find traditional clothing and cultural wear options",
     "Give me comprehensive local recommendations and insider tips",
     "Find nearby restaurants", "Show me interesting places", "Get current weather",
     "What events are happening", "Show cultural sites", "Find shopping areas",
     "Show traditional clothing options", "Give me comprehensive local recommendations",
     "Tell me about this category", "What's the weather like?", "Hello",
     "WEATHER and food", "Where can I buy a kimono?"}

\* one call of the static helper, kept with its argument and its result
Classify(s, message) ==
    /\ calls' = [calls EXCEPT ![s] =
                    [IdleCall EXCEPT !.pc = "done", !.api = "classifier",
                                     !.message = message,
                                     !.result = getSimulatedResponse(variant, message)]]
    /\ UNCHANGED <<variant, enabled, now, cache, apiCallCount, started, currentCity, chat>>

ClassifierNext == \E s \in Slots, message \in Messages : Classify(s, message)

ClassifierSpec == Init /\ [][ClassifierNext]_vars

-----------------------------------------------------------------------------
(* Properties of the keyword classifier *)

RuleOrder ==
    <<"weather", "food", "culture", "shopping", "events", "clothing", "places", "local">>

\* the keywords of each rule
Keywords(intent) ==
    CASE intent = "weather" -> {"weather", "temperature", "climate", "forecast"}
      [] intent = "food" ->
           {"food", "restaurant", "eat", "dining", "cuisine", "lunch", "dinner",
            "breakfast", "cafe", "local food", "street food"}
      [] intent = "culture" ->
           {"culture", "museum", "temple", "heritage", "historical", "monument",
            "cultural sites", "art", "gallery", "cultural attractions"}
      [] intent = "shopping" ->
           {"shopping", "shop", "market", "mall", "buy", "store", "shopping area",
            "boutique", "bazaar", "shopping district"}
      [] intent = "events" ->
           {"event", "festival", "concert", "performance", "happening", "activities",
            "entertainment", "nightlife", "what to do"}
      [] intent = "clothing" ->
           {"clothing", "traditional", "wear", "dress", "costume", "attire", "kimono",
            "saree", "traditional wear", "cultural clothing"}
      [] intent = "places" ->
           {"places", "attractions", "landmarks", "visit", "sightseeing", "tourist",
            "interesting places", "must see", "famous places", "tourist attractions"}
      [] intent = "local" ->
           {"local", "recommendation", "guide", "comprehensive", "local guide",
            "insider tips", "what locals do", "local experience", "comprehensive guide"}

\* the rules that have a keyword in the lowercased message
Matching(message) ==
    {k \in 1..Len(RuleOrder) :
        \E kw \in Keywords(RuleOrder[k]) : includes(lowerOf(message), kw)}

\* C17: the keyword classifier answers with the first rule, in the order
\* weather, food, culture, shopping, events, clothing, places, local, that has
\* a keyword in the lowercased message, with confidence 0.9, and with general
\* and 0.7 when no rule has one; "What's the weather like?" gives weather, 0.9.
KeywordPriority ==
    \A s \in Slots :
        calls[s].api = "classifier" =>
            LET m == Matching(calls[s].message)
                r == calls[s].result
            IN  /\ IF m = {}
                   THEN r.intent = "general" /\ r.confidence = 70
                   ELSE /\ r.intent = RuleOrder[CHOOSE k \in m : \A j \in m : k <= j]
                        /\ r.confidence = 90
                /\ calls[s].message = "What's the weather like?" =>
                       r.intent = "weather" /\ r.confidence = 90

-----------------------------------------------------------------------------
(* Properties of AIAPI.processQuery *)

IntentLabels ==
    {"weather", "food", "culture", "events", "places", "shopping", "clothing", "local",
     "general"}

\* C18: whatever the message and whatever the hosted classifier's call comes
\* to (disabled, exception, non-2xx, 2xx with any label list), processQuery
\* returns one intent of the fixed enumeration and never throws.
IntentTotalCoverage ==
    \A s \in Slots :
        (calls[s].api = "ai" /\ Done(calls[s])) =>
            /\ ~calls[s].threw
            /\ calls[s].result.kind = "intent"
            /\ calls[s].result.intent \in IntentLabels

-----------------------------------------------------------------------------
(* sendMessage (both builds).  The classifier's call runs in slot 1, the   *)
(* provider call of the handler in slot 2; chat keeps the message, the     *)
(* number of handlers entered, the handler and whether it has finished.    *)
(* The bodies of the clothing, local and general handlers are not followed *)
(* here.                                                                   *)

\* the classifier's answers, with label lists led by each label the request
\* asks for that the keyword rules of the legacy build cannot produce
DispatchResponses ==
    AIResponses \cup
    { [net |-> "ok", labels |-> Defined(<<l, "food">>), scores |-> Defined(<<80, 10>>)] :
        l \in {"places", "shopping"} }

\* sendMessage(message) up to await AIAPI.processQuery(message)
Send(message) ==
    /\ chat = NoChat
    /\ calls[1].pc = "idle"
    /\ chat' = [handler |-> "pending", message |-> message, handlers |-> 0,
                finished |-> FALSE]
    /\ calls' = [calls EXCEPT ![1] =
                    processQuery(variant,
                                 [NewCall("ai", "", "", 1, now, cache) EXCEPT
                                     !.message = message],
                                 cache, apiCallCount, enabled)]
    /\ UNCHANGED <<variant, enabled, now, cache, apiCallCount, started, currentCity>>

\* switch (aiResult.intent)
dispatchFull(intent) ==
    IF intent \in {"weather", "food", "culture", "events", "places", "shopping",
                   "clothing", "local"}
    THEN intent ELSE "general"
dispatchLegacy(intent) ==
    IF intent \in {"weather", "food", "culture", "events", "places", "clothing", "local"}
    THEN intent ELSE "general"

\* the category a handler passes to PlacesAPI.searchPlaces
handlerCategory(v, handler) ==
    CASE handler = "food" -> "food"
      [] handler = "culture" -> "culture"
      [] handler = "places" -> IF v = "full" THEN "tourist" ELSE "shopping"
      [] handler = "shopping" -> "shopping"
      [] OTHER -> ""

PlacesHandlers == {"food", "culture", "places", "shopping"}

\* sendMessage from the settling of processQuery to the first await of the
\* handler it enters
Dispatch ==
    /\ chat.handler = "pending"
    /\ calls[1].pc = "done"
    /\ LET intent == calls[1].result.intent
           handler == IF variant = "full" THEN dispatchFull(intent)
                      ELSE dispatchLegacy(intent)
           places == NewCall("places", currentCity, handlerCategory(variant, handler), 2,
                             now, cache)
       IN  /\ chat' = [chat EXCEPT !.handler = handler, !.handlers = @ + 1,
                                   !.finished = handler \in {"clothing", "local", "general"}]
           /\ calls' = [calls EXCEPT ![2] =
                  CASE handler = "weather" ->
                         getCurrentWeather(NewCall("weather", currentCity, "", 2, now, cache),
                                           cache, apiCallCount, now, enabled)
                    [] handler = "events" ->
                         getLocalEvents(NewCall("news", currentCity, "", 2, now, cache),
                                        cache, apiCallCount, now, enabled)
                    [] handler \in PlacesHandlers ->
                         IF variant = "full"
                         THEN searchPlaces(places, cache, apiCallCount, now)
                         ELSE legacySearchPlaces(places, cache, apiCallCount, now)
                    [] OTHER -> calls[2]]
    /\ UNCHANGED <<variant, enabled, now, cache, apiCallCount, started, currentCity>>

\* the handler renders what its provider call returned; sendMessage ends
Render ==
    /\ chat.handler \in PlacesHandlers \cup {"weather", "events"}
    /\ ~chat.finished
    /\ calls[2].pc = "done"
    /\ chat' = [chat EXCEPT !.finished = TRUE]
    /\ UNCHANGED <<variant, enabled, now, cache, apiCallCount, calls, started, currentCity>>

DispatchNext ==
    \/ \E message \in Messages : Send(message)
    \/ \E resp \in DispatchResponses : AIResponse(1, resp)
    \/ Dispatch
    \/ \E resp \in WeatherResponses : WeatherResponse(2, resp)
    \/ \E resp \in NewsResponses : NewsResponse(2, resp)
    \/ \E resp \in PlacesResponses : PlacesResponse(2, resp)
    \/ Render

DispatchSpec == Init /\ [][DispatchNext]_vars

-----------------------------------------------------------------------------
(* Properties of sendMessage *)

\* the category that goes with a places-based intent
IntentCategories(intent) ==
    CASE intent = "food" -> {"food"}
      [] intent = "culture" -> {"culture"}
      [] intent = "places" -> {"places", "tourist"}
      [] intent = "shopping" -> {"shopping"}

\* C20: for a non-empty message sendMessage classifies the intent and then
\* enters exactly one handler, that of the intent (weather, food, culture,
\* events, places, shopping, clothing, local) or the general one for any other
\* label; no handler is entered before the classification has completed, and
\* a places-based handler queries the category of its intent.
DispatchByIntent ==
    /\ chat.handler = "pending" => chat.handlers = 0 /\ calls[2].pc = "idle"
    /\ chat.handler \notin {"none", "pending"} =>
           LET intent == calls[1].result.intent
           IN  /\ calls[1].api = "ai" /\ calls[1].pc = "done"
               /\ chat.handlers = 1
               /\ chat.handler =
                      IF intent \in IntentLabels \ {"general"} THEN intent ELSE "general"
               /\ chat.handler \in PlacesHandlers =>
                      /\ calls[2].api = "places"
                      /\ calls[2].category \in IntentCategories(chat.handler)

\* the outcomes of the hosted classifier's call that yield no label list
\* with its scores
FailedClassification(resp) ==
    \/ resp.net \in {"reject", "status", "badjson"}
    \/ resp.net = "ok" /\ (~resp.labels.defined \/ ~resp.scores.defined)

-----------------------------------------------------------------------------
(* sendMessage of the full build with two messages in flight.  Message m   *)
(* awaits calls[m]: first AIAPI.processQuery, then the provider call of    *)
(* the handler it entered.  chat.loading is the display of #loading,       *)
(* chat.cityName the text of #cityName, and chat.msg[m] keeps, for the     *)
(* m-th sendMessage, its position, the handler it entered, the value of    *)
(* currentCity the handler passed to its provider (fetched) and printed in *)
(* its header (header), the category labels of the bot messages it         *)
(* appended (shown), whether an exception was raised inside its try block  *)
(* (thrown) and whether one left sendMessage (raised).  The clock stands   *)
(* still while the two messages are in flight.                             *)

SessionCities == {"tokyo", "paris"}

SessionMessages ==
    {"What's the weather like?", "Find the best restaurants and local food places",
     "Hello"}

\* what the classifier's request settles to in this specification
SessionResponses ==
    { [net |-> "reject"],
      [net |-> "ok", labels |-> Defined(<<"weather", "food">>),
                     scores |-> Defined(<<95, 3>>)] }

NoMessage ==
    [pc |-> "idle", message |-> "", handler |-> "", fetched |-> "", header |-> "",
     shown |-> <<>>, thrown |-> FALSE, raised |-> FALSE]

InFlight(msg) == msg.pc \in {"classify", "handle"}

\* the continuation of the m-th sendMessage is in the job queue: what it
\* awaits has settled.  An event (a click, a change of the selector, the
\* answer to a request) is handled only when the queue is empty.
Ready(m) == InFlight(chat.msg[m]) /\ calls[m].pc = "done"
QueueEmpty == \A m \in Slots : ~Ready(m)

showLoading(c) == [c EXCEPT !.loading = TRUE]
hideLoading(c) == [c EXCEPT !.loading = FALSE]

\* addBotMessage(message, category) called by the m-th sendMessage
addBotMessage(c, m, category) == [c EXCEPT !.msg[m].shown = Append(@, category)]

\* the category of the header a handler appends after its await
handlerLabel(handler) ==
    CASE handler = "weather" -> "Live Weather"
      [] handler = "food" -> "Local Cuisine"
      [] handler = "events" -> "Local Events"
      [] handler = "culture" -> "Cultural Sites"
      [] handler = "places" -> "Tourist Attractions"
      [] handler = "shopping" -> "Shopping"
      [] OTHER -> "General Help"

\* } finally { hideLoading(); } with nothing left to catch: the exception
\* leaves sendMessage and no message is shown
sendMessageRethrows(c, m, thrown) ==
    hideLoading([c EXCEPT !.msg[m].pc = "finished", !.msg[m].thrown = thrown,
                          !.msg[m].raised = thrown])

\* the end of sendMessage: showAPIUsageStats() or the catch block, then the
\* finally block
sendMessageEnd(c, m, thrown) ==
    LET caught == IF thrown THEN addBotMessage(c, m, "Error") ELSE c
    IN  hideLoading([caught EXCEPT !.msg[m].pc = "finished", !.msg[m].thrown = thrown])

\* sendMessage(message) up to await AIAPI.processQuery(message); an empty
\* message returns before anything is shown
sendMessage(m, message) ==
    /\ QueueEmpty
    /\ chat.msg[m].pc = "idle"
    /\ message # ""
    /\ chat' = showLoading([chat EXCEPT !.msg[m] =
                   [NoMessage EXCEPT !.pc = "classify", !.message = message]])
    /\ calls' = [calls EXCEPT ![m] =
                    processQuery(variant,
                                 [NewCall("ai", "", "", m, now, cache) EXCEPT
                                     !.message = message],
                                 cache, apiCallCount, enabled)]
    /\ UNCHANGED <<variant, enabled, now, cache, apiCallCount, started, currentCity>>

\* the provider call a handler awaits first, made for the current city
handlerCall(handler, m) ==
    CASE handler = "weather" ->
           getCurrentWeather(NewCall("weather", currentCity, "", m, now, cache),
                             cache, apiCallCount, now, enabled)
      [] handler = "events" ->
           getLocalEvents(NewCall("news", currentCity, "", m, now, cache),
                          cache, apiCallCount, now, enabled)
      [] OTHER ->
           searchPlaces(NewCall("places", currentCity, handlerCategory("full", handler), m,
                                now, cache),
                        cache, apiCallCount, now)

\* sendMessage from the settling of processQuery to the first await of the
\* handler of the intent; handleGeneralQuery awaits nothing
sendMessageDispatch(m) ==
    /\ chat.msg[m].pc = "classify"
    /\ calls[m].pc = "done"
    /\ LET handler == dispatchFull(calls[m].result.intent)
           entered == [chat EXCEPT !.msg[m].handler = handler]
       IN  /\ handler \notin {"clothing", "local"}
           /\ IF calls[m].threw
              THEN /\ chat' = sendMessageEnd(chat, m, TRUE)
                   /\ UNCHANGED calls
              ELSE IF handler = "general"
              THEN /\ chat' = sendMessageEnd(addBotMessage(entered, m, "General Help"),
                                             m, FALSE)
                   /\ UNCHANGED calls
              ELSE /\ chat' = [entered EXCEPT !.msg[m].pc = "handle",
                                              !.msg[m].fetched = currentCity]
                   /\ calls' = [calls EXCEPT ![m] = handlerCall(handler, m)]
    /\ UNCHANGED <<variant, enabled, now, cache, apiCallCount, started, currentCity>>

\* the handler from the settling of its provider call to its end, and the
\* end of sendMessage; fault: an unexpected error is thrown while the
\* handler appends its cards
sendMessageRender(m, fault) ==
    /\ chat.msg[m].pc = "handle"
    /\ calls[m].pc = "done"
    /\ chat' =
           IF calls[m].threw THEN sendMessageEnd(chat, m, TRUE)
           ELSE sendMessageEnd(
                    addBotMessage([chat EXCEPT !.msg[m].header = currentCity], m,
                                  handlerLabel(chat.msg[m].handler)),
                    m, fault)
    /\ UNCHANGED <<variant, enabled, now, cache, apiCallCount, calls, started, currentCity>>

\* the change listener of #citySelect: currentCity = this.value; updateCityInfo()
citySelectChange(city) ==
    /\ QueueEmpty
    /\ city # currentCity
    /\ currentCity' = city
    /\ chat' = [chat EXCEPT !.cityName = city]
    /\ UNCHANGED <<variant, enabled, now, cache, apiCallCount, calls, started>>

SessionInit ==
    /\ variant = "full"
    /\ enabled \in Configs
    /\ now = 0
    /\ cache = [p \in Caches |-> EmptyMap]
    /\ apiCallCount = [p \in Providers |-> 0]
    /\ calls = [s \in Slots |-> IdleCall]
    /\ started = 0
    /\ currentCity = "tokyo"
    /\ chat = [loading |-> FALSE, cityName |-> "tokyo", msg |-> [m \in Slots |-> NoMessage]]

SessionNext ==
    \/ \E m \in Slots, message \in SessionMessages : sendMessage(m, message)
    \/ QueueEmpty /\ \E m \in Slots, resp \in SessionResponses : AIResponse(m, resp)
    \/ \E m \in Slots : sendMessageDispatch(m)
    \/ QueueEmpty /\ \E m \in Slots, resp \in WeatherResponses : WeatherResponse(m, resp)
    \/ QueueEmpty /\ \E m \in Slots, resp \in PlacesResponses : PlacesResponse(m, resp)
    \/ \E m \in Slots, fault \in BOOLEAN : sendMessageRender(m, fault)
    \/ \E city \in SessionCities : citySelectChange(city)

SessionSpec == SessionInit /\ [][SessionNext]_vars

-----------------------------------------------------------------------------
(* Properties of sendMessage *)

Occurrences(seq, x) == Cardinality({i \in 1..Len(seq) : seq[i] = x})

\* C21: if the classification or the dispatched handler throws, sendMessage
\* shows exactly one generic error message and the exception does not
\* leave it (and it shows none when nothing was thrown); on every path it
\* hides the loading indicator when it finishes.
ErrorContainment ==
    /\ [](\A m \in Slots :
             /\ ~chat.msg[m].raised
             /\ chat.msg[m].pc = "finished" =>
                    Occurrences(chat.msg[m].shown, "Error") =
                        IF chat.msg[m].thrown THEN 1 ELSE 0)
    /\ [][\A m \in Slots :
            (chat.msg[m].pc # "finished" /\ chat'.msg[m].pc = "finished") =>
                ~chat'.loading]_vars

\* the weather handler threw after its header; the message ended with the
\* error message and the indicator hidden
HandlerErrorShown ==
    \E m \in Slots :
        /\ chat.msg[m].pc = "finished" /\ chat.msg[m].thrown
        /\ chat.msg[m].shown = <<"Live Weather", "Error">>
        /\ ~chat.loading

-----------------------------------------------------------------------------
(* Two weather or places calls of the full build that overlap in every     *)
(* order, every provider enabled.                                          *)

OverlapWeather ==
    { [net |-> "reject"], [net |-> "status"],
      [net |-> "ok", has |-> {"main", "weather0", "wind"}, temp |-> 21],
      [net |-> "ok", has |-> {"weather0", "wind"}, temp |-> 21] }

OverlapPlaces ==
    { [net |-> "reject"], [net |-> "status"], [net |-> "notarray"],
      [net |-> "ok", data |-> <<>>], [net |-> "ok", data |-> <<HitSensoji>>] }

OverlapInit == Init /\ variant = "full" /\ enabled = [p \in Providers |-> TRUE]

OverlapNext ==
    \/ Tick
    \/ \E s \in Slots, city \in CallCities : StartWeather(s, city)
    \/ \E s \in Slots, resp \in OverlapWeather : WeatherResponse(s, resp)
    \/ \E s \in Slots, city \in CallCities, category \in CallCategories :
           StartPlaces(s, city, category)
    \/ \E s \in Slots, resp \in OverlapPlaces : PlacesResponse(s, resp)

OverlapSpec == OverlapInit /\ [][OverlapNext]_vars

-----------------------------------------------------------------------------
(* Properties of the provider clients under overlap *)

OwnEntry(call, t) == [present |-> TRUE, data |-> call.result, timestamp |-> t]

\* C23: a weather or places call that finds no fresh entry for its key issues
\* its own request whatever the other call is doing, and leaves the other
\* call as it is; every call that returns live data stores its own value
\* with the time of its completion, so that after two overlapping calls for
\* one key the entry is that of the call that completed last.
ConcurrentMisses ==
    /\ [][\A s \in Slots : \A city \in CallCities :
            (StartWeather(s, city) /\ enabled["weather"]
                /\ ~IsFresh(cacheGet(cache, "weather", <<city>>), now, WeatherCacheTimeout)) =>
                /\ calls'[s].pc = "fetch" /\ calls'[s].reqs = 1
                /\ \A o \in Slots \ {s} : calls'[o] = calls[o]]_vars
    /\ [][\A s \in Slots : \A city \in CallCities : \A category \in CallCategories :
            (StartPlaces(s, city, category)
                /\ ~IsFresh(cacheGet(cache, "places", <<city, category>>), now,
                            PlacesCacheTimeout)) =>
                /\ calls'[s].pc = "fetch" /\ calls'[s].reqs = 1
                /\ \A o \in Slots \ {s} : calls'[o] = calls[o]]_vars
    /\ [][\A s \in Slots : \A resp \in WeatherResponses :
            (WeatherResponse(s, resp) /\ calls'[s].via = "live") =>
                /\ cacheGet(cache', "weather", <<calls[s].city>>) = OwnEntry(calls'[s], now)
                /\ \A o \in Slots \ {s} : calls'[o] = calls[o]]_vars
    /\ [][\A s \in Slots : \A resp \in PlacesResponses :
            (PlacesResponse(s, resp) /\ calls'[s].via = "live") =>
                /\ cacheGet(cache', "places", <<calls[s].city, calls[s].category>>)
                       = OwnEntry(calls'[s], now)
                /\ \A o \in Slots \ {s} : calls'[o] = calls[o]]_vars

\* two weather calls for tokyo entered while the cache had no entry, both
\* returned live data, the second one later, and the entry is the second's
LastWriteWon ==
    /\ calls[1].api = "weather" /\ calls[2].api = "weather"
    /\ Done(calls[1]) /\ Done(calls[2])
    /\ calls[1].via = "live" /\ calls[2].via = "live"
    /\ calls[1].preData = NoResult /\ calls[2].preData = NoResult
    /\ calls[1].result.timestamp < calls[2].result.timestamp
    /\ cacheGet(cache, "weather", <<"tokyo">>) =
           OwnEntry(calls[2], calls[2].result.timestamp)

\* the calls of provider p that return live data in this step
ReturningLive(p) ==
    {s \in Slots : /\ calls'[s] # calls[s] /\ calls'[s].api = p
                   /\ Done(calls'[s]) /\ calls'[s].via = "live"}

\* C24: in every step, under every interleaving of two calls,
\* apiCallCount[provider] grows by the number of the provider's calls that
\* return live data in that step, 1 or 0: it does not grow on a cache hit
\* or when the call ends in fallback, and it never decreases.
CallCounterExact ==
    [][\A p \in Providers :
          apiCallCount'[p] = apiCallCount[p] + Cardinality(ReturningLive(p))]_vars

-----------------------------------------------------------------------------
(* sendMessage when every request settles.  A continuation that is in the  *)
(* job queue is run.  A request that is outstanding is eventually          *)
(* answered: a call either stops waiting again and again or is answered    *)
(* again and again, which is the fairness of the answer with its enabling  *)
(* condition, that call m waits for a request, written out.                *)

Answered(m) == calls[m].pc = "fetch" /\ calls'[m] # calls[m]

FairSessionSpec ==
    /\ SessionSpec
    /\ \A m \in Slots :
           /\ []<>(calls[m].pc # "fetch") \/ []<><<Answered(m)>>_vars
           /\ WF_vars(sendMessageDispatch(m))
           /\ WF_vars(\E fault \in BOOLEAN : sendMessageRender(m, fault))

\* the step settles the request that call m is waiting for
Settles(m) ==
    \/ \E resp \in SessionResponses : AIResponse(m, resp)
    \/ \E resp \in WeatherResponses : WeatherResponse(m, resp)
    \/ \E resp \in PlacesResponses : PlacesResponse(m, resp)

\* C25: when every request settles, a sendMessage that has begun eventually
\* finishes with the loading indicator hidden; and nothing but the settling
\* of its request moves a call that waits for one (no timeout or deadline),
\* while a message moves on only once the call it awaits is done, so a
\* request that never settles leaves its message pending with no fallback.
CompletionWithoutTimeouts ==
    /\ \A m \in Slots :
           InFlight(chat.msg[m]) ~> (chat.msg[m].pc = "finished" /\ ~chat.loading)
    /\ [][\A m \in Slots :
            /\ (calls[m].pc = "fetch" /\ calls'[m] # calls[m]) => Settles(m)
            /\ (InFlight(chat.msg[m]) /\ chat'.msg[m] # chat.msg[m]) =>
                   calls[m].pc = "done"]_vars

\* a food message finished after the five queries of its search had settled
FoodMessageFinished ==
    \E m \in Slots :
        /\ chat.msg[m].pc = "finished" /\ chat.msg[m].handler = "food"
        /\ calls[m].api = "places" /\ calls[m].reqs = 5
        /\ ~chat.loading

-----------------------------------------------------------------------------
(* Properties of the aggregate caches *)

\* C26: an entry is written to the cache of LocalRecommendationsAPI or of
\* TraditionalClothingAPI only if the weather, news and places results in it
\* came from successful live responses.  Where every live request fails or
\* its provider is off, every such result is fallback data, so both caches
\* stay empty.
AggregateCachesLiveOnly ==
    /\ cache["local_rec"] = EmptyMap
    /\ cache["clothing"] = EmptyMap

-----------------------------------------------------------------------------
(* One searchPlaces call of the full build at a time, with the queries     *)
(* that did not get a usable 2xx answer kept in chat.failed (history, not  *)
(* read by the code).                                                      *)

\* PlacesAPI.searchPlaces(city, category) up to its first await
searchStart(city, category) ==
    /\ calls[1].pc \in {"idle", "done"}
    /\ started < MaxCalls
    /\ started' = started + 1
    /\ calls' = [calls EXCEPT ![1] =
                    searchPlaces(NewCall("places", city, category, started + 1, now, cache),
                                 cache, apiCallCount, now)]
    /\ chat' = [handler |-> "searchPlaces", failed |-> {}]
    /\ UNCHANGED <<variant, enabled, now, cache, apiCallCount, currentCity>>

\* the query that is outstanding settles to resp
searchSettle(resp) ==
    /\ calls[1].pc = "fetch"
    /\ resp.net = "ok" =>
           Len(calls[1].allPlaces) + Len(normalizeHits(resp.data)) <= MaxHits
    /\ LET r == searchPlacesStep(calls[1], resp, cache, apiCallCount, now)
       IN  /\ cache' = r.cache
           /\ apiCallCount' = r.count
           /\ calls' = [calls EXCEPT ![1] = r.call]
    /\ chat' = [chat EXCEPT !.failed =
                    IF resp.net = "ok" THEN @ ELSE @ \cup {calls[1].qi}]
    /\ UNCHANGED <<variant, enabled, now, started, currentCity>>

SearchInit == Init /\ variant = "full"

SearchNext ==
    \/ \E city \in CallCities, category \in CallCategories : searchStart(city, category)
    \/ \E resp \in PlacesResponses : searchSettle(resp)
    \/ Tick

SearchSpec == SearchInit /\ [][SearchNext]_vars

\* C27: searchPlaces writes a cache entry only when every query of its plan
\* received a successful (2xx) response: no entry is written by a call one
\* of whose queries was rejected, answered non-2xx or answered with a body
\* that is no list.
CacheHoldsCompleteResults ==
    [][cache'["places"] # cache["places"] => chat'.failed = {}]_vars

-----------------------------------------------------------------------------
(* Properties of overlapping messages *)

\* C28: the loading indicator is visible whenever at least one sendMessage
\* is still in flight; the completion of one message does not hide it while
\* another is pending.
LoadingWhileInFlight ==
    (\E m \in Slots : InFlight(chat.msg[m])) => chat.loading

\* C29: the city named in a handler's header is the city whose data the
\* handler fetched, the one that was selected when the handler started, even
\* if the selector changed currentCity while the request was in flight.
CityConsistency ==
    \A m \in Slots :
        chat.msg[m].header # "" => chat.msg[m].header = chat.msg[m].fetched

-----------------------------------------------------------------------------
(* The category buttons *)

\* const categoryMessages = { ... } of handleCategoryClick, full build
categoryMessagesFull(category) ==
    CASE category = "food" -> "Find the best restaurants and local food places"
      [] category = "places" -> "Find top tourist attractions and landmarks"
      [] category = "weather" -> "Get current weather conditions"
      [] category = "events" -> "What cultural events and activities are happening"
      [] category = "culture" -> "Find museums temples and cultural sites"
      [] category = "shopping" -> "Find the best shopping districts and markets"
      [] category = "clothing" -> "Find traditional clothing and cultural wear options"
      [] category = "local" ->
           "Give me comprehensive local recommendations and insider tips"
      [] OTHER -> "Tell me about this category"

\* the same table of the legacy build
categoryMessagesLegacy(category) ==
    CASE category = "food" -> "Find nearby restaurants"
      [] category = "places" -> "Show me interesting places"
      [] category = "weather" -> "Get current weather"
      [] category = "events" -> "What events are happening"
      [] category = "culture" -> "Show cultural sites"
      [] category = "shopping" -> "Find shopping areas"
      [] category = "clothing" -> "Show traditional clothing options"
      [] category = "local" -> "Give me comprehensive local recommendations"
      [] OTHER -> "Tell me about this category"

\* the message handleCategoryClick(category) passes to sendMessage
handleCategoryClick(v, category) ==
    IF v = "full" THEN categoryMessagesFull(category) ELSE categoryMessagesLegacy(category)

\* C30: for each category button the message handleCategoryClick sends is
\* classified by the keyword classifier to the button's category, and the
\* switch of sendMessage enters that category's handler for it.
ButtonsReachOwnHandler ==
    \A s \in Slots : \A category \in Intents :
        (calls[s].api = "classifier" /\ Done(calls[s])
            /\ calls[s].message = handleCategoryClick(variant, category)) =>
            /\ calls[s].result.intent = category
            /\ category = IF variant = "full" THEN dispatchFull(calls[s].result.intent)
                          ELSE dispatchLegacy(calls[s].result.intent)

====
